---------------------------- MODULE Spec2Model ----------------------------
(***************************************************************************)
(* zxvdu: a network display server.  Connection goroutines read text lines *)
(* from TCP clients, parse them into DrawCommands and push them into the   *)
(* buffered channel commandChan; the render loop drains the channel once   *)
(* per tick (processCommands) and applies every command to the global      *)
(* drawing state, the 4 x 8 render textures and the texture slots.         *)
(*                                                                         *)
(* Modelled build: network.go (1-259, 424-616), graphics.go, main.go,      *)
(* unnamed/part_002 (buffers and textures), unnamed/part_003 (parser).     *)
(*                                                                         *)
(* A line of text is modelled after strings.Fields: a sequence of tokens,  *)
(* each token a string.  A render texture is modelled by its handle (id)   *)
(* and by the colour of a few sample pixels; the rasterisation itself is   *)
(* raylib's.                                                               *)
(***************************************************************************)
EXTENDS Integers, Sequences, FiniteSets, TLC

\* ------------------------------------------------------------------ bounds

\* Connections accepted by startDrawingCommandServer.
NumConns == 2
\* Lines the clients send altogether in one behaviour.
MaxLines == 3
\* Capacity of commandChan in the model (the program's is 100).
QueueCap == 2
\* Lines a connection's send buffer holds before a write to it blocks.
SockCap == 1
\* Sample pixels are (0..MaxCoord) x (0..MaxCoord).
MaxCoord == 1
\* The largest number a token of a line spells.
MaxNumeral == 300
\* Connections the event server accepts in one behaviour.
NumSubs == 4

\* ------------------------------------------------------- program constants

BaseWidth == 256
BaseHeight == 192
numFlipBuffers == 8
numLayerBuffers == 8
PaletteLen == 15
\* var textures [256]TextureEntry
NumTextures == 256
\* rl.GetMonitorWidth(0), rl.GetMonitorHeight(0): the host's monitor.
MonitorWidth == 1920
MonitorHeight == 1080
\* rl.Color{R: 0, G: 0, B: 0, A: 0}: a fully transparent pixel.
Transparent == -1
\* The content of a render texture that was loaded and never cleared.
Uncleared == -2

Conns == 1..NumConns
NoConn == 0
Pts == (0..MaxCoord) \X (0..MaxCoord)

\* ------------------------------------------------------------ text helpers

\* strconv.Atoi on a token: decimal numerals convert, anything else fails.
\* The numerals of the model are those of -2..MaxNumeral.
AtoiRange == -2..MaxNumeral

Numerals == {ToString(n) : n \in AtoiRange}
NumeralOf == [n \in AtoiRange |-> ToString(n)]

Atoi(tok) ==
    IF tok \in Numerals
    THEN [ok |-> TRUE, val |-> CHOOSE n \in AtoiRange : NumeralOf[n] = tok]
    ELSE [ok |-> FALSE, val |-> 0]

UpperChars == "ABCDEFGHIJKLMNOPQRSTUVWXYZ"
LowerChars == "abcdefghijklmnopqrstuvwxyz"

LowerChar(ch) ==
    IF \E i \in 1..26 : SubSeq(UpperChars, i, i) = ch
    THEN LET i == CHOOSE j \in 1..26 : SubSeq(UpperChars, j, j) = ch
         IN SubSeq(LowerChars, i, i)
    ELSE ch

UpperChar(ch) ==
    IF \E i \in 1..26 : SubSeq(LowerChars, i, i) = ch
    THEN LET i == CHOOSE j \in 1..26 : SubSeq(LowerChars, j, j) = ch
         IN SubSeq(UpperChars, i, i)
    ELSE ch

RECURSIVE ToLower(_)
ToLower(s) ==
    IF Len(s) = 0 THEN ""
    ELSE LowerChar(SubSeq(s, 1, 1)) \o ToLower(SubSeq(s, 2, Len(s)))

RECURSIVE ToUpper(_)
ToUpper(s) ==
    IF Len(s) = 0 THEN ""
    ELSE UpperChar(SubSeq(s, 1, 1)) \o ToUpper(SubSeq(s, 2, Len(s)))

\* %q of a token.
Quote(tok) == "\"" \o tok \o "\""

\* ------------------------------------------------------------ DrawCommand

\* The zero DrawCommand{}.
ZeroCmd == [Cmd |-> "", Params |-> <<>>, Mode |-> "", Str |-> "", Conn |-> NoConn]

Ok(dc) == [err |-> "", dc |-> dc]
Fail(msg) == [err |-> msg, dc |-> ZeroCmd]

\* --------------------------------------------------------------- the parser

parseQueryCommand(fields) ==
    IF Len(fields) = 0 THEN Fail("ERROR 0001 : empty query command")
    ELSE Ok([ZeroCmd EXCEPT !.Cmd = fields[1], !.Mode = "query"])

parsePaintCommand(fields) ==
    IF Len(fields) < 2 THEN Fail("ERROR 0006 : paint command requires parameters")
    ELSE LET cmd == ToLower(fields[1])
             p == ToLower(fields[2])
         IN CASE cmd = "paint" ->
                   IF p # "flip" /\ p # "layer"
                   THEN Fail("ERROR 0006 : paint parameter must be flip or layer")
                   ELSE Ok([ZeroCmd EXCEPT !.Cmd = "paint", !.Mode = p])
              [] cmd = "paint_target" ->
                   IF p # "onscreen" /\ p # "offscreen"
                   THEN Fail("ERROR 0006 : paint_target parameter must be onscreen or offscreen")
                   ELSE Ok([ZeroCmd EXCEPT !.Cmd = "paint_target", !.Mode = p])
              [] cmd = "paint_copy" ->
                   IF Len(fields) # 4
                   THEN Fail("ERROR 0006 : paint_copy requires buffer_type src dst")
                   ELSE IF p # "flip" /\ p # "layer"
                   THEN Fail("ERROR 0006 : paint_copy buffer_type must be flip or layer")
                   ELSE IF ~Atoi(fields[3]).ok \/ ~Atoi(fields[4]).ok
                   THEN Fail("ERROR 0006 : invalid buffer numbers")
                   ELSE Ok([ZeroCmd EXCEPT !.Cmd = "paint_copy", !.Mode = p,
                              !.Params = <<Atoi(fields[3]).val, Atoi(fields[4]).val>>])
              [] OTHER -> Fail("ERROR 0006 : invalid paint command")

parseTexAdd(fields) ==
    IF Len(fields) < 3 THEN Fail("ERROR 0011 : tex add requires pixel data")
    ELSE IF Len(fields) >= 5
    THEN IF ~Atoi(fields[4]).ok \/ ~Atoi(fields[5]).ok
         THEN Fail("ERROR 0012 : invalid size parameters")
         ELSE Ok([ZeroCmd EXCEPT !.Cmd = "tex", !.Mode = "add", !.Str = fields[3],
                    !.Params = <<Atoi(fields[4]).val, Atoi(fields[5]).val>>])
    ELSE Ok([ZeroCmd EXCEPT !.Cmd = "tex", !.Mode = "add", !.Str = fields[3],
               !.Params = <<16, 16>>])

parseTexSet(fields) ==
    IF Len(fields) < 4
    THEN Fail("ERROR 0013 : tex set requires texture number and pixel data")
    ELSE IF ~Atoi(fields[3]).ok THEN Fail("ERROR 0014 : invalid texture number")
    ELSE IF Len(fields) >= 6
    THEN IF ~Atoi(fields[5]).ok \/ ~Atoi(fields[6]).ok
         THEN Fail("ERROR 0015 : invalid size parameters")
         ELSE Ok([ZeroCmd EXCEPT !.Cmd = "tex", !.Mode = "set", !.Str = fields[4],
                    !.Params = <<Atoi(fields[3]).val, Atoi(fields[5]).val,
                                 Atoi(fields[6]).val>>])
    ELSE Ok([ZeroCmd EXCEPT !.Cmd = "tex", !.Mode = "set", !.Str = fields[4],
               !.Params = <<Atoi(fields[3]).val, 16, 16>>])

parseTexDelete(fields) ==
    IF Len(fields) < 3 THEN Fail("ERROR 0016 : tex del requires texture number")
    ELSE IF ~Atoi(fields[3]).ok THEN Fail("ERROR 0017 : invalid texture number")
    ELSE Ok([ZeroCmd EXCEPT !.Cmd = "tex", !.Mode = "del",
               !.Params = <<Atoi(fields[3]).val>>])

parseTexPaint(fields) ==
    IF Len(fields) < 5
    THEN Fail("ERROR 0021 : tex paint requires x, y, and texture number")
    ELSE IF ~Atoi(fields[3]).ok \/ ~Atoi(fields[4]).ok \/ ~Atoi(fields[5]).ok
    THEN Fail("ERROR 0022 : invalid parameters for tex paint")
    ELSE Ok([ZeroCmd EXCEPT !.Cmd = "tex", !.Mode = "paint",
               !.Params = <<Atoi(fields[3]).val, Atoi(fields[4]).val,
                            Atoi(fields[5]).val>>])

parseTexCommand(fields) ==
    IF Len(fields) < 2 THEN Fail("ERROR 0010 : tex command requires a subcommand")
    ELSE LET subCmd == ToLower(fields[2])
         IN CASE subCmd = "add" -> parseTexAdd(fields)
              [] subCmd = "set" -> parseTexSet(fields)
              [] subCmd = "del" -> parseTexDelete(fields)
              [] subCmd = "paint" -> parseTexPaint(fields)
              [] OTHER -> Fail("ERROR 0020 : unknown tex sub-command " \o Quote(subCmd))

parseEraserCommand(fields) ==
    IF Len(fields) # 1 THEN Fail("ERROR 0007 : eraser command takes no parameters")
    ELSE Ok([ZeroCmd EXCEPT !.Cmd = "eraser"])

\* The closure convertToken of parseRegularCommand.
convertToken(token) ==
    IF token = "_" THEN [ok |-> TRUE, val |-> -1] ELSE Atoi(token)

\* The numeric parameters of tokens from..to, or the first token that fails;
\* tokens are converted by convertToken when placeholder, by Atoi otherwise.
RECURSIVE ConvertAll(_, _, _, _)
ConvertAll(placeholder, fields, from, to) ==
    IF from > to THEN [ok |-> TRUE, params |-> <<>>, bad |-> ""]
    ELSE LET v == IF placeholder THEN convertToken(fields[from])
                  ELSE Atoi(fields[from])
         IN IF ~v.ok THEN [ok |-> FALSE, params |-> <<>>, bad |-> fields[from]]
            ELSE LET rest == ConvertAll(placeholder, fields, from + 1, to)
                 IN IF ~rest.ok THEN rest
                    ELSE [rest EXCEPT !.params = <<v.val>> \o @]

parseShapeCommand(cmd, fields) ==
    LET last == fields[Len(fields)]
        hasMode == Len(fields) - 1 > 0 /\ ~Atoi(last).ok
        modeCandidate == ToUpper(last)
        tokenCount == IF hasMode THEN Len(fields) - 2 ELSE Len(fields) - 1
        mode == IF hasMode THEN modeCandidate ELSE "F"
        conv == ConvertAll(FALSE, fields, 2, tokenCount + 1)
        n == Len(conv.params)
        arity == CASE cmd = "rect" -> 4 [] cmd = "circle" -> 3 [] OTHER -> 6
    IN IF hasMode /\ modeCandidate # "S" /\ modeCandidate # "F"
       THEN Fail("ERROR 0003 : " \o cmd \o " mode must be S or F")
       ELSE IF ~conv.ok THEN Fail("ERROR 0002 : invalid parameter " \o Quote(conv.bad))
       ELSE IF n = arity
       THEN Ok([ZeroCmd EXCEPT !.Cmd = cmd, !.Params = conv.params \o <<-1>>,
                  !.Mode = mode])
       ELSE IF n = arity + 1
       THEN Ok([ZeroCmd EXCEPT !.Cmd = cmd, !.Params = conv.params, !.Mode = mode])
       ELSE Fail("ERROR 0004 : " \o cmd \o " requires "
                   \o ToString(arity) \o " or " \o ToString(arity + 1)
                   \o " numeric parameters, plus optional mode")

RegularCmds ==
    {"plot", "line", "lineto", "ink", "paper", "bright", "colour", "cls",
     "flip", "layer", "graphics", "zoom"}

parseRegularCommand(cmd, fields) ==
    IF cmd \in RegularCmds
    THEN LET conv == ConvertAll(TRUE, fields, 2, Len(fields))
         IN IF ~conv.ok THEN Fail("ERROR 0002 : invalid parameter " \o Quote(conv.bad))
            ELSE Ok([ZeroCmd EXCEPT !.Cmd = cmd, !.Params = conv.params])
    ELSE IF cmd \in {"rect", "circle", "triangle"}
    THEN parseShapeCommand(cmd, fields)
    ELSE Fail("ERROR 0005 : unknown command " \o Quote(cmd))

\* parseCommand on the fields of a line.
parseCommand(fields) ==
    IF Len(fields) = 0 THEN Fail("ERROR 0001 : empty command")
    ELSE LET cmd == ToLower(fields[1])
         IN IF fields[Len(fields)] = "?"
            THEN parseQueryCommand(SubSeq(fields, 1, Len(fields) - 1))
            ELSE IF cmd = "tex" THEN parseTexCommand(fields)
            ELSE IF cmd \in {"paint", "paint_target", "paint_copy"}
            THEN parsePaintCommand(fields)
            ELSE IF cmd = "eraser" THEN parseEraserCommand(fields)
            ELSE parseRegularCommand(cmd, fields)

\* ------------------------------------------------------ the global state

\* A render texture: the handle raylib gave it and its sample pixels.
RT(id, col) == [id |-> id, px |-> [p \in Pts |-> col]]
\* The zero rl.RenderTexture2D{}.
ZeroRT == RT(0, Uncleared)

Fill(rt, col) == [rt EXCEPT !.px = [p \in Pts |-> col]]
\* Drawing colour col on the sample pixels in S.
Draw(rt, S, col) == [rt EXCEPT !.px = [p \in Pts |-> IF p \in S THEN col ELSE @[p]]]

\* The texture slots: textures is modelled as the function from the slots in
\* use to their entries; a slot outside its domain holds the zero
\* TextureEntry{}, whose inUse is false.
Slots == 0..(NumTextures - 1)
InUse(s, i) == i \in DOMAIN s.textures
Entry(width, height, data) == [width |-> width, height |-> height, data |-> data]
\* textures[slot] = e
SetTexture(s, slot, e) ==
    [s EXCEPT !.textures = [i \in (DOMAIN @) \cup {slot} |-> IF i = slot THEN e ELSE @[i]]]
\* textures[slot] = TextureEntry{}
ClearTexture(s, slot) ==
    [s EXCEPT !.textures = [i \in (DOMAIN @) \ {slot} |-> @[i]]]

Idx == 0..(numFlipBuffers - 1)

\* effectiveInkColor / effectivePaperColor
\* An effective ink that ignores the bright flag.
effectiveInkColorPlain(s) == s.defaultInk

effectiveInkColor(s) ==
    IF s.defaultInk = 0 THEN 0
    ELSE IF s.defaultBright THEN s.defaultInk + 7
    ELSE s.defaultInk

effectivePaperColor(s) ==
    IF s.defaultPaper = 0 THEN 0
    ELSE IF s.defaultBright THEN s.defaultPaper + 7
    ELSE s.defaultPaper

\* palette[i] is an index expression on a slice of 15 colours: outside 0..14
\* the Go runtime panics.
InPalette(i) == i >= 0 /\ i < PaletteLen

\* createFlipBuffers, createLayerBuffers, createOffscreenBuffers, run one
\* after the other (main and handleGraphics call them in this order).  Each
\* LoadRenderTexture returns a fresh handle.  With an effective paper outside
\* the palette the first ClearBackground(palette[...]) of createFlipBuffers
\* panics: flipBuffers is then the new slice with one loaded, uncleared texture.
createBuffers(s) ==
    LET base == s.rtLoaded
        paper == effectivePaperColor(s)
    IN IF ~InPalette(paper)
       THEN [s EXCEPT !.flipBuffers =
                          [i \in Idx |-> IF i = 0 THEN RT(base + 1, Uncleared) ELSE ZeroRT],
                      !.rtLoaded = base + 1,
                      !.panicked = TRUE]
       ELSE [s EXCEPT !.flipBuffers = [i \in Idx |-> RT(base + 1 + i, paper)],
                      !.activeFlipBuffer = 0,
                      !.layerBuffers =
                          [i \in Idx |-> RT(base + numFlipBuffers + 1 + i, Transparent)],
                      !.activeLayerBuffer = 0,
                      !.offscreenFlipBuffers =
                          [i \in Idx |->
                              RT(base + numFlipBuffers + numLayerBuffers + 1 + i, paper)],
                      !.offscreenLayerBuffers =
                          [i \in Idx |->
                              RT(base + 2 * numFlipBuffers + numLayerBuffers + 1 + i,
                                 Transparent)],
                      !.rtLoaded = base + 2 * numFlipBuffers + 2 * numLayerBuffers]

\* The package-level variables before main creates the buffers.
ZeroGlobals ==
    [defaultInk |-> 7, defaultPaper |-> 0, defaultBright |-> FALSE,
     graphicsMult |-> 1, zoomFactor |-> 1,
     currentDrawingMode |-> "flip", currentTarget |-> "onscreen",
     eraserMode |-> FALSE, currentX |-> 0, currentY |-> 0,
     activeFlipBuffer |-> 0, activeLayerBuffer |-> 0,
     activeOffscreenFlip |-> 0, activeOffscreenLayer |-> 0,
     flipBuffers |-> [i \in Idx |-> ZeroRT],
     layerBuffers |-> [i \in Idx |-> ZeroRT],
     offscreenFlipBuffers |-> [i \in Idx |-> ZeroRT],
     offscreenLayerBuffers |-> [i \in Idx |-> ZeroRT],
     textures |-> <<>>,
     rtLoaded |-> 0,
     panicked |-> FALSE]

\* The globals when the render loop starts (main, no flags given).
InitGlobals == createBuffers(ZeroGlobals)

\* What a handler did: the globals after it and the lines it wrote to cmd.Conn.
Done(s) == [s |-> s, out |-> <<>>]
Reply(s, line) == [s |-> s, out |-> <<line>>]
Panic(s) == [s |-> [s EXCEPT !.panicked = TRUE], out |-> <<>>]

\* --------------------------------------------------------- target buffer

\* getTargetBuffer: which array and which index the current state selects.
TargetKind(s) ==
    IF s.currentTarget = "onscreen"
    THEN IF s.currentDrawingMode = "flip" THEN "flipBuffers" ELSE "layerBuffers"
    ELSE IF s.currentDrawingMode = "flip" THEN "offscreenFlipBuffers"
         ELSE "offscreenLayerBuffers"

TargetIndex(s) ==
    IF s.currentTarget = "onscreen"
    THEN IF s.currentDrawingMode = "flip" THEN s.activeFlipBuffer
         ELSE s.activeLayerBuffer
    ELSE IF s.currentDrawingMode = "flip" THEN s.activeOffscreenFlip
         ELSE s.activeOffscreenLayer

getTargetBuffer(s) == s[TargetKind(s)][TargetIndex(s)]

\* The globals with the target buffer's pixels replaced by those of rt.
WithTarget(s, rt) == [s EXCEPT ![TargetKind(s)][TargetIndex(s)] = rt]

\* ------------------------------------------------------------ primitives

\* int32(v): every coordinate of the model is far inside the int32 range.
Int32(v) == v

Between(a, v, b) == (a <= v /\ v <= b) \/ (b <= v /\ v <= a)

\* The sample pixels raylib's primitives cover.
PixelPts(x, y) == {p \in Pts : p[1] = x /\ p[2] = y}

LinePts(x1, y1, x2, y2) ==
    {p \in Pts : /\ (p[1] - x1) * (y2 - y1) = (p[2] - y1) * (x2 - x1)
                 /\ Between(x1, p[1], x2) /\ Between(y1, p[2], y2)}

CirclePts(x, y, r) ==
    {p \in Pts : r >= 0 /\ (p[1] - x) * (p[1] - x) + (p[2] - y) * (p[2] - y) <= r * r}

CircleLinesPts(x, y, r) ==
    CirclePts(x, y, r) \ (IF r >= 1 THEN CirclePts(x, y, r - 1) ELSE {})

RectPts(x, y, w, h) ==
    {p \in Pts : x <= p[1] /\ p[1] < x + w /\ y <= p[2] /\ p[2] < y + h}

RectLinesPts(x, y, w, h) ==
    RectPts(x, y, w, h) \ RectPts(x + 1, y + 1, w - 2, h - 2)

Side(p, a, b) == (b[1] - a[1]) * (p[2] - a[2]) - (b[2] - a[2]) * (p[1] - a[1])

TrianglePts(a, b, c) ==
    {p \in Pts : \/ Side(p, a, b) >= 0 /\ Side(p, b, c) >= 0 /\ Side(p, c, a) >= 0
                 \/ Side(p, a, b) <= 0 /\ Side(p, b, c) <= 0 /\ Side(p, c, a) <= 0}

TriangleLinesPts(a, b, c) ==
    LinePts(a[1], a[2], b[1], b[2]) \cup LinePts(b[1], b[2], c[1], c[2])
        \cup LinePts(c[1], c[2], a[1], a[2])

\* -------------------------------------------------------------- textures

HexDigits == "0123456789abcdef"

\* strconv.ParseInt(string(ch), 16, 64): the digit's value, or -1 on an error.
HexVal(ch) ==
    LET c == LowerChar(ch)
    IN IF \E i \in 1..16 : SubSeq(HexDigits, i, i) = c
       THEN (CHOOSE i \in 1..16 : SubSeq(HexDigits, i, i) = c) - 1
       ELSE -1

\* A slot search that falls back on slot 0 when every slot is in use.
findFreeTextureSlotOrZero(s) ==
    IF \E i \in Slots : ~InUse(s, i)
    THEN CHOOSE i \in Slots : ~InUse(s, i) /\ \A j \in 0..(i - 1) : InUse(s, j)
    ELSE 0

\* A slot search that returns the highest free slot.
findLastFreeTextureSlot(s) ==
    IF \E i \in Slots : ~InUse(s, i)
    THEN CHOOSE i \in Slots :
            ~InUse(s, i) /\ \A j \in (i + 1)..(NumTextures - 1) : InUse(s, j)
    ELSE -1

\* findFirstFreeTextureSlot
findFirstFreeTextureSlot(s) ==
    IF \E i \in Slots : ~InUse(s, i)
    THEN CHOOSE i \in Slots : ~InUse(s, i) /\ \A j \in 0..(i - 1) : InUse(s, j)
    ELSE -1

\* createTextureFromPixelData: the palette index of every pixel, or an error.
createTextureFromPixelData(pixelData, width, height) ==
    IF Len(pixelData) # width * height
    THEN [err |-> "pixel data length (" \o ToString(Len(pixelData))
                    \o ") does not match dimensions " \o ToString(width)
                    \o "x" \o ToString(height),
          data |-> <<>>]
    ELSE IF \E i \in 1..Len(pixelData) : HexVal(SubSeq(pixelData, i, i)) < 0
    THEN LET i == CHOOSE k \in 1..Len(pixelData) :
                      /\ HexVal(SubSeq(pixelData, k, k)) < 0
                      /\ \A j \in 1..(k - 1) : HexVal(SubSeq(pixelData, j, j)) >= 0
         IN [err |-> "invalid hex digit '" \o SubSeq(pixelData, i, i) \o "'",
             data |-> <<>>]
    ELSE [err |-> "",
          data |-> [i \in 1..Len(pixelData) |->
                       LET v == HexVal(SubSeq(pixelData, i, i))
                       IN IF v >= PaletteLen THEN PaletteLen - 1 ELSE v]]

\* A handleTexAdd that does not send the slot number.
handleTexAddSilent(s, cmd) ==
    IF Len(cmd.Params) < 2
    THEN Reply(s, "ERROR 0021 : invalid texture parameters")
    ELSE LET slot == findFirstFreeTextureSlot(s)
             tex == createTextureFromPixelData(cmd.Str, cmd.Params[1], cmd.Params[2])
         IN IF slot = -1 THEN Reply(s, "ERROR 0022 : no free texture slots")
            ELSE IF tex.err # "" THEN Reply(s, "ERROR 0023 : " \o tex.err)
            ELSE Done(SetTexture(s, slot,
                                 Entry(cmd.Params[1], cmd.Params[2], tex.data)))

\* handleTexAdd
handleTexAdd(s, cmd) ==
    IF Len(cmd.Params) < 2
    THEN Reply(s, "ERROR 0021 : invalid texture parameters")
    ELSE LET slot == findFirstFreeTextureSlot(s)
             tex == createTextureFromPixelData(cmd.Str, cmd.Params[1], cmd.Params[2])
         IN IF slot = -1 THEN Reply(s, "ERROR 0022 : no free texture slots")
            ELSE IF tex.err # "" THEN Reply(s, "ERROR 0023 : " \o tex.err)
            ELSE Reply(SetTexture(s, slot,
                                  Entry(cmd.Params[1], cmd.Params[2], tex.data)),
                       ToString(slot))

\* handleTexSet with updateTextureFromPixelData: textures[slot] is indexed
\* without a range check.
handleTexSet(s, cmd) ==
    IF Len(cmd.Params) < 3
    THEN Reply(s, "ERROR 0024 : invalid texture parameters")
    ELSE LET slot == cmd.Params[1]
             tex == createTextureFromPixelData(cmd.Str, cmd.Params[2], cmd.Params[3])
         IN IF tex.err # "" THEN Reply(s, "ERROR 0025 : " \o tex.err)
            ELSE IF slot < 0 \/ slot >= NumTextures THEN Panic(s)
            ELSE Done(SetTexture(s, slot,
                                 Entry(cmd.Params[2], cmd.Params[3], tex.data)))

\* A handleTexDelete that takes a slot that is not in use for deleted.
handleTexDeleteUnchecked(s, cmd) ==
    IF Len(cmd.Params) < 1
    THEN Reply(s, "ERROR 0026 : texture number required")
    ELSE LET slot == cmd.Params[1]
         IN IF slot < 0 \/ slot >= NumTextures
            THEN Reply(s, "ERROR 0027 : texture number out of bounds")
            ELSE Done(ClearTexture(s, slot))

\* handleTexDelete with deleteTexture
handleTexDelete(s, cmd) ==
    IF Len(cmd.Params) < 1
    THEN Reply(s, "ERROR 0026 : texture number required")
    ELSE LET slot == cmd.Params[1]
         IN IF slot < 0 \/ slot >= NumTextures
            THEN Reply(s, "ERROR 0027 : texture number out of bounds")
            ELSE IF ~InUse(s, slot)
            THEN Reply(s, "ERROR 0027 : texture slot " \o ToString(slot)
                            \o " is not in use")
            ELSE Done(ClearTexture(s, slot))

\* The sample pixels of the target after blitting texture t at (x, y).
Blit(rt, t, x, y) ==
    [rt EXCEPT !.px =
        [p \in Pts |->
            IF /\ x <= p[1] /\ p[1] < x + t.width
               /\ y <= p[2] /\ p[2] < y + t.height
               /\ (p[2] - y) * t.width + (p[1] - x) + 1 \in DOMAIN t.data
            THEN t.data[(p[2] - y) * t.width + (p[1] - x) + 1]
            ELSE @[p]]]

\* handleTexPaint
handleTexPaint(s, cmd) ==
    IF Len(cmd.Params) < 3
    THEN Reply(s, "ERROR 0028 : invalid texture paint parameters")
    ELSE LET n == cmd.Params[3]
         IN IF n < 0 \/ n >= NumTextures
            THEN Reply(s, "ERROR 0029 : invalid texture number")
            ELSE IF ~InUse(s, n)
            THEN Reply(s, "ERROR 0029 : invalid texture number")
            ELSE Done(WithTarget(s, Blit(getTargetBuffer(s), s.textures[n],
                                         cmd.Params[1], cmd.Params[2])))

\* handleTexCommand
handleTexCommand(s, cmd) ==
    CASE cmd.Mode = "add" -> handleTexAdd(s, cmd)
      [] cmd.Mode = "set" -> handleTexSet(s, cmd)
      [] cmd.Mode = "del" -> handleTexDelete(s, cmd)
      [] cmd.Mode = "paint" -> handleTexPaint(s, cmd)
      [] OTHER -> Done(s)

\* ------------------------------------------------------- drawing handlers

\* The colour a draw handler paints with: cIndex is the command's colour
\* parameter when it has one, -1 otherwise; -1 is replaced by the effective
\* ink; in layer mode with the eraser on the palette is not consulted.
\* [panic |-> TRUE] when palette[cIndex] is out of range.
ResolveColour(s, cmd, pos) ==
    LET given == IF Len(cmd.Params) >= pos THEN cmd.Params[pos] ELSE -1
        cIndex == IF given = -1 THEN effectiveInkColor(s) ELSE given
    IN IF s.currentDrawingMode = "layer" /\ s.eraserMode
       THEN [panic |-> FALSE, col |-> Transparent]
       ELSE IF InPalette(cIndex) THEN [panic |-> FALSE, col |-> cIndex]
       ELSE [panic |-> TRUE, col |-> Transparent]

\* A draw handler's effect: paint the covered sample pixels of the target.
Paint(s, c, S) ==
    IF c.panic THEN Panic(s) ELSE Done(WithTarget(s, Draw(getTargetBuffer(s), S, c.col)))

\* A plot that brightens an explicit colour the way the ink is brightened.
handlePlotBrightens(s, cmd) ==
    IF Len(cmd.Params) >= 2
    THEN LET given == IF Len(cmd.Params) >= 3 THEN cmd.Params[3] ELSE -1
             c == IF given <= 0 \/ ~s.defaultBright THEN given ELSE given + 7
         IN Paint(s, ResolveColour(s, [cmd EXCEPT !.Params = <<cmd.Params[1], cmd.Params[2], c>>], 3),
                  PixelPts(Int32(cmd.Params[1]), Int32(cmd.Params[2])))
    ELSE Done(s)

handlePlot(s, cmd) ==
    IF Len(cmd.Params) >= 2
    THEN Paint(s, ResolveColour(s, cmd, 3),
               PixelPts(Int32(cmd.Params[1]), Int32(cmd.Params[2])))
    ELSE Done(s)

handleLine(s, cmd) ==
    IF Len(cmd.Params) >= 4
    THEN Paint(s, ResolveColour(s, cmd, 5),
               LinePts(Int32(cmd.Params[1]), Int32(cmd.Params[2]),
                       Int32(cmd.Params[3]), Int32(cmd.Params[4])))
    ELSE Done(s)

handleLineTo(s, cmd) ==
    IF Len(cmd.Params) >= 2
    THEN LET r == Paint(s, ResolveColour(s, cmd, 3),
                        LinePts(Int32(s.currentX), Int32(s.currentY),
                                Int32(cmd.Params[1]), Int32(cmd.Params[2])))
         IN IF r.s.panicked THEN r
            ELSE Done([r.s EXCEPT !.currentX = cmd.Params[1],
                                  !.currentY = cmd.Params[2]])
    ELSE Done(s)

handleCircle(s, cmd) ==
    IF Len(cmd.Params) >= 3
    THEN LET x == Int32(cmd.Params[1])
             y == Int32(cmd.Params[2])
         IN Paint(s, ResolveColour(s, cmd, 4),
                  IF ToUpper(cmd.Mode) = "S"
                  THEN CircleLinesPts(x, y, cmd.Params[3])
                  ELSE CirclePts(x, y, cmd.Params[3]))
    ELSE Done(s)

handleRect(s, cmd) ==
    IF Len(cmd.Params) >= 4
    THEN LET x == Int32(cmd.Params[1])
             y == Int32(cmd.Params[2])
             w == Int32(cmd.Params[3])
             h == Int32(cmd.Params[4])
         IN Paint(s, ResolveColour(s, cmd, 5),
                  IF ToUpper(cmd.Mode) = "S"
                  THEN RectLinesPts(x, y, w, h)
                  ELSE RectPts(x, y, w, h))
    ELSE Done(s)

handleTriangle(s, cmd) ==
    IF Len(cmd.Params) >= 6
    THEN LET a == <<cmd.Params[1], cmd.Params[2]>>
             b == <<cmd.Params[3], cmd.Params[4]>>
             c == <<cmd.Params[5], cmd.Params[6]>>
         IN Paint(s, ResolveColour(s, cmd, 7),
                  IF ToUpper(cmd.Mode) = "S"
                  THEN TriangleLinesPts(a, b, c)
                  ELSE TrianglePts(a, b, c))
    ELSE Done(s)

DrawCmds == {"plot", "line", "lineto", "circle", "rect", "triangle"}

\* updateActiveBuffer
updateActiveBuffer(s, cmd) ==
    CASE cmd.Cmd = "plot" -> handlePlot(s, cmd)
      [] cmd.Cmd = "line" -> handleLine(s, cmd)
      [] cmd.Cmd = "lineto" -> handleLineTo(s, cmd)
      [] cmd.Cmd = "circle" -> handleCircle(s, cmd)
      [] cmd.Cmd = "rect" -> handleRect(s, cmd)
      [] cmd.Cmd = "triangle" -> handleTriangle(s, cmd)
      [] OTHER -> Done(s)

\* ------------------------------------------------------- control handlers

\* handleCLS
handleCLS(s) ==
    IF s.currentDrawingMode = "flip"
    THEN IF InPalette(effectivePaperColor(s))
         THEN Done(WithTarget(s, Fill(getTargetBuffer(s), effectivePaperColor(s))))
         ELSE Panic(s)
    ELSE Done(WithTarget(s, Fill(getTargetBuffer(s), Transparent)))

\* A handleFlip without the range check on its index.
handleFlipUnchecked(s, cmd) ==
    IF Len(cmd.Params) = 0
    THEN Done([s EXCEPT !.activeFlipBuffer = IF @ = 0 THEN 1 ELSE 0])
    ELSE Done([s EXCEPT !.activeFlipBuffer = cmd.Params[1]])

\* A handleFlip that selects the offscreen buffer while the target is
\* offscreen.
handleFlipOnTarget(s, cmd) ==
    IF Len(cmd.Params) = 1 /\ cmd.Params[1] >= 0 /\ cmd.Params[1] < numFlipBuffers
    THEN IF s.currentTarget = "offscreen"
         THEN Done([s EXCEPT !.activeOffscreenFlip = cmd.Params[1]])
         ELSE Done([s EXCEPT !.activeFlipBuffer = cmd.Params[1]])
    ELSE Done(s)

\* handleFlip
handleFlip(s, cmd) ==
    IF Len(cmd.Params) = 0
    THEN Done([s EXCEPT !.activeFlipBuffer = IF @ = 0 THEN 1 ELSE 0])
    ELSE IF Len(cmd.Params) = 1 /\ cmd.Params[1] >= 0 /\ cmd.Params[1] < numFlipBuffers
    THEN Done([s EXCEPT !.activeFlipBuffer = cmd.Params[1]])
    ELSE Done(s)

\* handleLayer
handleLayer(s, cmd) ==
    IF Len(cmd.Params) = 0
    THEN Done([s EXCEPT !.activeLayerBuffer = IF @ = 0 THEN 1 ELSE 0])
    ELSE IF Len(cmd.Params) = 1 /\ cmd.Params[1] >= 0 /\ cmd.Params[1] < numLayerBuffers
    THEN Done([s EXCEPT !.activeLayerBuffer = cmd.Params[1]])
    ELSE Done(s)

\* handlePaint
handlePaint(s, cmd) ==
    IF ToLower(cmd.Mode) = "flip"
    THEN Done([s EXCEPT !.currentDrawingMode = "flip", !.eraserMode = FALSE])
    ELSE IF ToLower(cmd.Mode) = "layer"
    THEN Done([s EXCEPT !.currentDrawingMode = "layer"])
    ELSE Done(s)

\* handlePaintTarget
handlePaintTarget(s, cmd) ==
    IF cmd.Mode = "onscreen" \/ cmd.Mode = "offscreen"
    THEN Done([s EXCEPT !.currentTarget = cmd.Mode])
    ELSE Done(s)

\* handlePaintCopy with copyBufferFromOffscreen and copyBuffer
handlePaintCopy(s, cmd) ==
    LET src == cmd.Params[1]
        dst == cmd.Params[2]
    IN IF src < 0 \/ dst < 0 \/ src >= numFlipBuffers \/ dst >= numFlipBuffers
       THEN Reply(s, "ERROR 0030 : buffer index out of range")
       ELSE IF cmd.Mode = "flip"
       THEN Done([s EXCEPT !.flipBuffers[dst].px = s.offscreenFlipBuffers[src].px])
       ELSE IF cmd.Mode = "layer"
       THEN Done([s EXCEPT !.layerBuffers[dst].px = s.offscreenLayerBuffers[src].px])
       ELSE Reply(s, "ERROR 0030 : invalid buffer type")

\* A graphics handler that records the multiplier and keeps the buffers and
\* the active indices it finds.
handleGraphicsKeepsBuffers(s, cmd) ==
    IF Len(cmd.Params) = 1 /\ cmd.Params[1] >= 1
    THEN Done([s EXCEPT !.graphicsMult = cmd.Params[1]])
    ELSE Done(s)

\* handleGraphics
handleGraphics(s, cmd) ==
    IF Len(cmd.Params) = 1 /\ cmd.Params[1] >= 1
    THEN LET t == createBuffers([s EXCEPT !.graphicsMult = cmd.Params[1]])
         IN IF t.panicked THEN Done(t)
            ELSE Done([t EXCEPT !.activeFlipBuffer = 0, !.activeLayerBuffer = 0,
                                !.activeOffscreenFlip = 0,
                                !.activeOffscreenLayer = 0])
    ELSE Done(s)

\* handleZoom
handleZoom(s, cmd) ==
    IF Len(cmd.Params) = 1 /\ cmd.Params[1] >= 1
    THEN LET newZoom == cmd.Params[1]
             internalW == BaseWidth * s.graphicsMult
             internalH == BaseHeight * s.graphicsMult
         IN IF internalW * newZoom <= MonitorWidth /\ internalH * newZoom <= MonitorHeight
            THEN Done([s EXCEPT !.zoomFactor = newZoom])
            ELSE Done(s)
    ELSE Done(s)

boolToInt(b) == IF b THEN 1 ELSE 0

\* processQuery: the response line.
processQuery(s, cmd) ==
    CASE cmd = "colour" -> ToString(s.defaultInk) \o " " \o ToString(s.defaultPaper)
                             \o " " \o ToString(boolToInt(s.defaultBright))
      [] cmd = "graphics" -> ToString(s.graphicsMult)
      [] cmd = "zoom" -> ToString(s.zoomFactor)
      [] cmd = "ink" -> ToString(s.defaultInk)
      [] cmd = "paper" -> ToString(s.defaultPaper)
      [] cmd = "bright" -> ToString(boolToInt(s.defaultBright))
      [] cmd = "host" -> "zxvdu v1.0"
      [] cmd = "flip" -> ToString(s.activeFlipBuffer)
      [] cmd = "layer" -> ToString(s.activeLayerBuffer)
      [] cmd = "paint" -> s.currentDrawingMode
      [] cmd = "paint_target" -> s.currentTarget
      [] cmd = "eraser" -> ToString(boolToInt(s.eraserMode))
      [] OTHER -> "unknown query"

\* The ink, paper, bright, colour and eraser cases of processCommands.
setInk(s, cmd) ==
    IF Len(cmd.Params) = 1
    THEN Done([s EXCEPT !.defaultInk = cmd.Params[1],
                        !.eraserMode = IF s.currentDrawingMode = "layer" THEN FALSE ELSE @])
    ELSE Done(s)

setPaper(s, cmd) ==
    IF Len(cmd.Params) = 1 THEN Done([s EXCEPT !.defaultPaper = cmd.Params[1]])
    ELSE Done(s)

setBright(s, cmd) ==
    IF Len(cmd.Params) = 1 THEN Done([s EXCEPT !.defaultBright = (cmd.Params[1] = 1)])
    ELSE Done(s)

setColour(s, cmd) ==
    IF Len(cmd.Params) = 3
    THEN Done([s EXCEPT !.defaultInk = cmd.Params[1],
                        !.defaultPaper = cmd.Params[2],
                        !.defaultBright = (cmd.Params[3] = 1),
                        !.eraserMode = IF s.currentDrawingMode = "layer" THEN FALSE ELSE @])
    ELSE Done(s)

\* An eraser case that switches the eraser on in either mode.
setEraserAnyMode(s) == Done([s EXCEPT !.eraserMode = TRUE])

setEraser(s) ==
    IF s.currentDrawingMode = "layer" THEN Done([s EXCEPT !.eraserMode = TRUE])
    ELSE Done(s)

\* A render loop that hands a query to the handler of the command of the
\* same name.
execCommandIgnoresMode(s, cmd) ==
    CASE cmd.Cmd = "cls" -> handleCLS(s)
      [] cmd.Cmd = "flip" -> handleFlip(s, cmd)
      [] cmd.Cmd = "layer" -> handleLayer(s, cmd)
      [] cmd.Cmd = "paint" -> handlePaint(s, cmd)
      [] cmd.Cmd = "ink" -> setInk(s, cmd)
      [] cmd.Cmd = "graphics" -> handleGraphics(s, cmd)
      [] cmd.Cmd = "eraser" -> setEraser(s)
      [] OTHER -> updateActiveBuffer(s, cmd)

\* One iteration of the loop of processCommands on the received command:
\* the globals after it and the lines written to cmd.Conn.
execCommand(s, cmd) ==
    IF cmd.Mode = "query" THEN Reply(s, processQuery(s, cmd.Cmd))
    ELSE CASE cmd.Cmd = "cls" -> handleCLS(s)
           [] cmd.Cmd = "flip" -> handleFlip(s, cmd)
           [] cmd.Cmd = "layer" -> handleLayer(s, cmd)
           [] cmd.Cmd = "paint" -> handlePaint(s, cmd)
           [] cmd.Cmd = "paint_target" -> handlePaintTarget(s, cmd)
           [] cmd.Cmd = "paint_copy" -> handlePaintCopy(s, cmd)
           [] cmd.Cmd = "ink" -> setInk(s, cmd)
           [] cmd.Cmd = "paper" -> setPaper(s, cmd)
           [] cmd.Cmd = "bright" -> setBright(s, cmd)
           [] cmd.Cmd = "colour" -> setColour(s, cmd)
           [] cmd.Cmd = "graphics" -> handleGraphics(s, cmd)
           [] cmd.Cmd = "zoom" -> handleZoom(s, cmd)
           [] cmd.Cmd = "eraser" -> setEraser(s)
           [] cmd.Cmd = "tex" -> handleTexCommand(s, cmd)
           [] OTHER -> updateActiveBuffer(s, cmd)

\* The globals after replaying the commands of q one at a time, in order; a
\* panic ends the process, so nothing after it is applied.
RECURSIVE Replay(_, _)
Replay(s, q) ==
    IF Len(q) = 0 \/ s.panicked THEN s
    ELSE Replay(execCommand(s, Head(q)).s, Tail(q))

\* ================================================================ the system

VARIABLES
    g,            \* the package-level variables (ZeroGlobals lists them)
    commandChan,  \* the buffered channel, oldest command first
    reader,       \* handleDrawingCommandConn of each connection: where it is
    peerClosed,   \* whether the client has closed its end of the connection
    sockBuf,      \* lines written to a connection that its client has not read
    execPc,       \* the render loop: "drain", "write" (in a blocked write), "render"
    execPending,  \* the write the render loop is blocked in
    nLines,       \* lines read so far by all readers
    sent,         \* history: the commands each reader parsed, in order
    enqLog,       \* history: every command sent into commandChan, in order
    execLog,      \* history: every command received by processCommands, in order
    ev            \* the event subscribers and the sendEvent in progress (NoEvents)

vars == <<g, commandChan, reader, peerClosed, sockBuf, execPc, execPending,
          nLines, sent, enqLog, execLog, ev>>

NoWrite == [conn |-> NoConn, line |-> ""]

\* The event side at startup: eventConns is empty, eventConnsMu is unlocked,
\* the listener of startEventServer waits in Accept.  i is the loop variable
\* of sendEvent; before, tried and failed are history of the sendEvent in
\* progress: eventConns when it took the lock, the connections it has written
\* to, in order, and those whose write returned an error.  accepted, gone and
\* closed are the connections that were ever accepted, whose subscriber has
\* closed its end, and that the server has closed.
NoEvents ==
    [eventConns |-> <<>>, locked |-> FALSE, accepting |-> NoConn, i |-> 0,
     before |-> <<>>, tried |-> <<>>, failed |-> {},
     accepted |-> {}, gone |-> {}, closed |-> {}]

Init ==
    /\ g = InitGlobals
    /\ commandChan = <<>>
    /\ reader = [c \in Conns |-> [pc |-> "scan", cmd |-> ZeroCmd, err |-> ""]]
    /\ peerClosed = [c \in Conns |-> FALSE]
    /\ sockBuf = [c \in Conns |-> <<>>]
    /\ execPc = "drain"
    /\ execPending = NoWrite
    /\ nLines = 0
    /\ sent = [c \in Conns |-> <<>>]
    /\ enqLog = <<>>
    /\ execLog = <<>>
    /\ ev = NoEvents

\* The process is alive: a panic in the render loop ends every goroutine.
Running == ~g.panicked

\* A write to connection c returns at once with an error: the server has
\* closed it (the reader returned) or the peer is gone.
WriteFails(c) == reader[c].pc = "closed" \/ peerClosed[c]

\* The reader of c back at scanner.Scan(): it waits for a line, or, on a
\* connection the client has closed, Scan returns false, the handler returns
\* and the deferred conn.Close() runs.
AtScan(c) ==
    [pc |-> IF peerClosed[c] THEN "closed" ELSE "scan", cmd |-> ZeroCmd, err |-> ""]
\* A write to connection c would block: the peer is there and its buffer is full.
WriteBlocks(c) == ~WriteFails(c) /\ Len(sockBuf[c]) >= SockCap

\* sockBuf after a write of line to c that does not block.
Written(c, line) ==
    IF WriteFails(c) THEN sockBuf ELSE [sockBuf EXCEPT ![c] = Append(@, line)]

\* ---------------------------------------------------------------- readers

\* handleDrawingCommandConn: scanner.Scan() returns a line, parseCommand
\* parses it.
Scan(c, fields) ==
    /\ Running
    /\ reader[c].pc = "scan"
    /\ ~peerClosed[c]
    /\ nLines < MaxLines
    /\ nLines' = nLines + 1
    /\ LET r == parseCommand(fields)
       IN /\ reader' = [reader EXCEPT ![c] =
                        IF r.err # ""
                        THEN [pc |-> "reply", cmd |-> ZeroCmd, err |-> r.err]
                        ELSE [pc |-> "send", cmd |-> [r.dc EXCEPT !.Conn = c],
                              err |-> ""]]
          /\ sent' = IF r.err # "" THEN sent
                     ELSE [sent EXCEPT ![c] = Append(@, [r.dc EXCEPT !.Conn = c])]
    /\ UNCHANGED <<g, commandChan, peerClosed, sockBuf, execPc, execPending,
                   enqLog, execLog, ev>>

\* A reader that gives up the connection after a line that does not parse.
ReplyErrorCloses(c) ==
    /\ Running
    /\ reader[c].pc = "reply"
    /\ ~WriteBlocks(c)
    /\ sockBuf' = Written(c, reader[c].err)
    /\ reader' = [reader EXCEPT ![c] = [AtScan(c) EXCEPT !.pc = "closed"]]
    /\ UNCHANGED <<g, commandChan, peerClosed, execPc, execPending, nLines,
                   sent, enqLog, execLog, ev>>

\* handleDrawingCommandConn: fmt.Fprintln(conn, err); continue
ReplyError(c) ==
    /\ Running
    /\ reader[c].pc = "reply"
    /\ ~WriteBlocks(c)
    /\ sockBuf' = Written(c, reader[c].err)
    /\ reader' = [reader EXCEPT ![c] = AtScan(c)]
    /\ UNCHANGED <<g, commandChan, peerClosed, execPc, execPending, nLines,
                   sent, enqLog, execLog, ev>>

\* A channel that hands the newest command to the receiver first.
ChanSendFront(q, cmd) == <<cmd>> \o q

\* The channel after the send commandChan <- cmd.
ChanSend(q, cmd) == Append(q, cmd)

\* A reader of the older design, which applied a drawing command to the
\* globals itself instead of handing it to the render loop.
SendApplies(c) ==
    /\ Running
    /\ reader[c].pc = "send"
    /\ Len(commandChan) < QueueCap
    /\ g' = execCommand(g, reader[c].cmd).s
    /\ reader' = [reader EXCEPT ![c] = AtScan(c)]
    /\ UNCHANGED <<commandChan, peerClosed, sockBuf, execPc, execPending,
                   nLines, sent, enqLog, execLog, ev>>

\* A reader that replaces the sentinel colour of a plot by the effective ink
\* it finds when it sends the command.
SendResolvesColour(c) ==
    /\ Running
    /\ reader[c].pc = "send"
    /\ Len(commandChan) < QueueCap
    /\ LET cmd == reader[c].cmd
           resolved ==
               IF cmd.Cmd = "plot" /\ cmd.Mode # "query" /\ Len(cmd.Params) = 2
               THEN [cmd EXCEPT !.Params = Append(@, effectiveInkColor(g))]
               ELSE cmd
       IN /\ commandChan' = ChanSend(commandChan, resolved)
          /\ enqLog' = Append(enqLog, resolved)
    /\ reader' = [reader EXCEPT ![c] = AtScan(c)]
    /\ UNCHANGED <<g, peerClosed, sockBuf, execPc, execPending, nLines, sent,
                   execLog, ev>>

\* A reader that answers a query itself, from the globals as they are when
\* it has parsed the line, and sends only the other commands.
SendAnswersQueries(c) ==
    /\ Running
    /\ reader[c].pc = "send"
    /\ IF reader[c].cmd.Mode = "query"
       THEN /\ ~WriteBlocks(c)
            /\ sockBuf' = Written(c, processQuery(g, reader[c].cmd.Cmd))
            /\ UNCHANGED <<commandChan, enqLog>>
       ELSE /\ Len(commandChan) < QueueCap
            /\ commandChan' = ChanSend(commandChan, reader[c].cmd)
            /\ enqLog' = Append(enqLog, reader[c].cmd)
            /\ UNCHANGED sockBuf
    /\ reader' = [reader EXCEPT ![c] = AtScan(c)]
    /\ UNCHANGED <<g, peerClosed, execPc, execPending, nLines, sent, execLog,
                   ev>>

\* handleDrawingCommandConn: commandChan <- cmd, which blocks while the
\* channel is full.
Send(c) ==
    /\ Running
    /\ reader[c].pc = "send"
    /\ Len(commandChan) < QueueCap
    /\ commandChan' = ChanSend(commandChan, reader[c].cmd)
    /\ enqLog' = Append(enqLog, reader[c].cmd)
    /\ reader' = [reader EXCEPT ![c] = AtScan(c)]
    /\ UNCHANGED <<g, peerClosed, sockBuf, execPc, execPending, nLines, sent,
                   execLog, ev>>

\* ----------------------------------------------------------------- clients

\* A close that also withdraws the commands the connection still has in the
\* channel.
ClientCloseWithdraws(c) ==
    /\ Running
    /\ ~peerClosed[c]
    /\ peerClosed' = [peerClosed EXCEPT ![c] = TRUE]
    /\ sockBuf' = [sockBuf EXCEPT ![c] = <<>>]
    /\ reader' = [reader EXCEPT ![c].pc = IF @ = "scan" THEN "closed" ELSE @]
    /\ commandChan' = SelectSeq(commandChan, LAMBDA cmd : cmd.Conn # c)
    /\ UNCHANGED <<g, execPc, execPending, nLines, sent, enqLog, execLog, ev>>

\* The client closes the connection; what it has not read is lost.  A reader
\* waiting in scanner.Scan() returns (Scan is false, the deferred
\* conn.Close() runs); a reader busy with a line gets there after it.
ClientClose(c) ==
    /\ Running
    /\ ~peerClosed[c]
    /\ peerClosed' = [peerClosed EXCEPT ![c] = TRUE]
    /\ sockBuf' = [sockBuf EXCEPT ![c] = <<>>]
    /\ reader' = [reader EXCEPT ![c].pc = IF @ = "scan" THEN "closed" ELSE @]
    /\ UNCHANGED <<g, commandChan, execPc, execPending, nLines, sent, enqLog,
                   execLog, ev>>

\* The client reads one line the server wrote.
ClientRead(c) ==
    /\ Running
    /\ ~peerClosed[c]
    /\ sockBuf[c] # <<>>
    /\ sockBuf' = [sockBuf EXCEPT ![c] = Tail(@)]
    /\ UNCHANGED <<g, commandChan, reader, peerClosed, execPc, execPending,
                   nLines, sent, enqLog, execLog, ev>>

\* ------------------------------------------------------------ render loop

\* A receive that takes the newest command of the channel, not the oldest.
ChanRecvNewest(q) == [cmd |-> q[Len(q)], rest |-> SubSeq(q, 1, Len(q) - 1)]

\* case cmd := <-commandChan: the command received and the channel after it.
ChanRecv(q) == [cmd |-> Head(q), rest |-> Tail(q)]

\* What execLog records of a command when the render loop receives it.
Executed(cmd) ==
    [cmd |-> cmd,
     connClosed |-> reader[cmd.Conn].pc = "closed",
     drawBehind |-> /\ cmd.Cmd \in {"ink", "bright", "colour"}
                    /\ cmd.Mode # "query"
                    /\ \E i \in 2..Len(commandChan) :
                          /\ commandChan[i].Cmd \in DrawCmds
                          /\ commandChan[i].Mode # "query",
     rtLoaded |-> g.rtLoaded,
     targetId |-> getTargetBuffer(g).id,
     targetIdx |-> TargetIndex(g)]

\* processCommands: one iteration that receives a command and executes it.
\* A handler's write to cmd.Conn blocks the render loop while the client's
\* buffer is full.
ProcessCommand ==
    /\ Running
    /\ execPc = "drain"
    /\ commandChan # <<>>
    /\ LET got == ChanRecv(commandChan)
           r == execCommand(g, got.cmd)
           c == got.cmd.Conn
       IN /\ commandChan' = got.rest
          /\ execLog' = Append(execLog, Executed(got.cmd))
          /\ g' = r.s
          /\ IF r.out = <<>>
             THEN UNCHANGED <<sockBuf, execPc, execPending>>
             ELSE IF WriteBlocks(c)
             THEN /\ execPc' = "write"
                  /\ execPending' = [conn |-> c, line |-> r.out[1]]
                  /\ UNCHANGED sockBuf
             ELSE /\ sockBuf' = Written(c, r.out[1])
                  /\ UNCHANGED <<execPc, execPending>>
    /\ UNCHANGED <<reader, peerClosed, nLines, sent, enqLog, ev>>

\* The blocked write of the render loop returns: the client has read, or the
\* connection is closed.
FinishWrite ==
    /\ Running
    /\ execPc = "write"
    /\ ~WriteBlocks(execPending.conn)
    /\ sockBuf' = Written(execPending.conn, execPending.line)
    /\ execPc' = "drain"
    /\ execPending' = NoWrite
    /\ UNCHANGED <<g, commandChan, reader, peerClosed, nLines, sent, enqLog,
                   execLog, ev>>

\* processCommands: the default case of the select, the channel is empty.
DrainReturn ==
    /\ Running
    /\ execPc = "drain"
    /\ commandChan = <<>>
    /\ execPc' = "render"
    /\ UNCHANGED <<g, commandChan, reader, peerClosed, sockBuf, execPending,
                   nLines, sent, enqLog, execLog, ev>>

\* main: the rest of the tick, BeginDrawing to EndDrawing, composites
\* flipBuffers[activeFlipBuffer] and layerBuffers[activeLayerBuffer].
Render ==
    /\ Running
    /\ execPc = "render"
    /\ execPc' = "drain"
    /\ UNCHANGED <<g, commandChan, reader, peerClosed, sockBuf, execPending,
                   nLines, sent, enqLog, execLog, ev>>

\* The lines the clients send.
Lines ==
    {<<"ink", "3">>, <<"plot", "0", "0">>, <<"plot", "1", "1", "2">>,
     <<"flip", "1">>, <<"graphics", "2">>, <<"ink", "?">>, <<"bogus">>}

\* The steps of the program with a single client, on connection 1.
NextSolo(L) ==
    \/ \E fields \in L : Scan(1, fields)
    \/ ReplyError(1)
    \/ Send(1)
    \/ ClientClose(1)
    \/ ClientRead(1)
    \/ ProcessCommand
    \/ FinishWrite
    \/ DrainReturn
    \/ Render

NextOn(L) ==
    \/ \E c \in Conns : \E fields \in L : Scan(c, fields)
    \/ \E c \in Conns : ReplyError(c)
    \/ \E c \in Conns : Send(c)
    \/ \E c \in Conns : ClientClose(c)
    \/ \E c \in Conns : ClientRead(c)
    \/ ProcessCommand
    \/ FinishWrite
    \/ DrainReturn
    \/ Render

Next == NextOn(Lines)

Spec == Init /\ [][Next]_vars

\* ------------------------------------------------------------- properties

\* The commands of execLog, in the order the render loop received them.
ExecutedCmds == [i \in 1..Len(execLog) |-> execLog[i].cmd]

\* The commands of connection c in a sequence of commands.
OfConn(q, c) == SelectSeq(q, LAMBDA cmd : cmd.Conn = c)

\* The command reader c has parsed and not yet sent, as a sequence.
Held(c) == IF reader[c].pc = "send" THEN <<reader[c].cmd>> ELSE <<>>

\* C1: the globals, once the render loop has executed what is left in the
\* channel, are what executing every command sent so far, one whole command
\* at a time in the order of the sends, makes of the initial globals; the
\* render loop has received the commands in the order of the sends; and the
\* commands of one connection are sent in the order its reader parsed them.
C1_DrainIsSequentialReplay ==
    /\ Replay(g, commandChan) = Replay(InitGlobals, enqLog)
    /\ ExecutedCmds = SubSeq(enqLog, 1, Len(execLog))
    /\ \A c \in Conns : OfConn(enqLog, c) \o Held(c) = sent[c]

\* Commands of both connections have been executed, the channel is drained
\* and the surfaces are no longer the initial ones.
C1_Witness ==
    /\ commandChan = <<>>
    /\ \A c \in Conns : OfConn(ExecutedCmds, c) # <<>>
    /\ g.flipBuffers # InitGlobals.flipBuffers
    /\ Running

\* A reader can take a step: every step of handleDrawingCommandConn.
ReaderStep(c) ==
    \/ \E fields \in Lines : Scan(c, fields)
    \/ ReplyError(c)
    \/ Send(c)

\* C2: a reader that holds a parsed command while the channel is full is not
\* blocked: it has a step to take (the reply that the server is busy, with
\* the command dropped).
C2_FullQueueDoesNotBlockReader ==
    \A c \in Conns :
        (Running /\ reader[c].pc = "send" /\ Len(commandChan) >= QueueCap)
            => ENABLED ReaderStep(c)

\* C3: a step that changes the globals is a receive of the render loop from
\* the channel and no step of a reader; a reader's error reply goes to its
\* own connection only.
C3_OnlyRenderLoopWritesGlobals ==
    [][/\ g' # g =>
            /\ execPc = "drain"
            /\ commandChan # <<>>
            /\ commandChan' = Tail(commandChan)
            /\ reader' = reader
       /\ \A c \in Conns :
            reader'[c] # reader[c] =>
                /\ g' = g
                /\ \A d \in Conns \ {c} : sockBuf'[d] = sockBuf[d]]_vars

\* The render loop has changed the globals and a reader has written a parse
\* error to its connection.
C3_Witness ==
    /\ g.flipBuffers # InitGlobals.flipBuffers
    /\ \E c \in Conns : \E i \in 1..Len(sockBuf[c]) :
            SubSeq(sockBuf[c][i], 1, 5) = "ERROR"
    /\ \E c \in Conns : reader[c].pc = "send"

\* C4: the commands sent into the channel are the commands the render loop
\* has received followed by the commands still in the channel: none is lost,
\* none is executed twice, whatever became of the connection that sent it.
C4_EnqueuedExecutedOnce ==
    enqLog = ExecutedCmds \o commandChan

\* The render loop has executed a command of a connection that was closed by
\* then, and the command changed a surface.
C4_Witness ==
    /\ \E i \in 1..Len(execLog) :
            /\ execLog[i].connClosed
            /\ execLog[i].cmd.Cmd = "plot"
    /\ g.flipBuffers # InitGlobals.flipBuffers

GraphicsLines ==
    {<<"graphics", "2">>, <<"flip", "1">>, <<"plot", "0", "0", "1">>, <<"cls">>,
     <<"paint", "layer">>, <<"paper", "15">>, <<"ink", "?">>, <<"bogus">>}

SpecGraphics == Init /\ [][NextOn(GraphicsLines)]_vars

\* The lines the clients send when they set colours.
ColourLines ==
    {<<"ink", "9">>, <<"ink", "_">>, <<"paper", "7">>, <<"bright", "1">>,
     <<"plot", "0", "0">>, <<"plot", "1", "1", "15">>, <<"ink", "?">>,
     <<"bogus">>}

SpecColour == Init /\ [][NextOn(ColourLines)]_vars

\* C6: the render loop is never in a write to a connection whose client has
\* left no room for it.
C6_RenderLoopNeverWaitsOnClient ==
    execPc # "write"

\* An executed command that is graphics N with N >= 1.
IsGraphicsN(cmd) ==
    /\ cmd.Mode # "query"
    /\ cmd.Cmd = "graphics"
    /\ Len(cmd.Params) = 1
    /\ cmd.Params[1] >= 1

\* An executed command that draws or clears.
IsDrawOrClear(cmd) == cmd.Mode # "query" /\ cmd.Cmd \in DrawCmds \cup {"cls"}

\* An executed command that selects a flip or a layer buffer.
IsSelect(cmd) == cmd.Mode # "query" /\ cmd.Cmd \in {"flip", "layer"}

\* The handles of the buffers that the graphics command of entry e created.
NewSet(e) ==
    (e.rtLoaded + 1)..(e.rtLoaded + 2 * numFlipBuffers + 2 * numLayerBuffers)

\* execLog[i] is the last graphics N command executed before execLog[j].
LastGraphicsBefore(i, j) ==
    /\ i < j
    /\ IsGraphicsN(execLog[i].cmd)
    /\ \A k \in (i + 1)..(j - 1) : ~IsGraphicsN(execLog[k].cmd)

AllBaseline(s) ==
    /\ s.activeFlipBuffer = 0 /\ s.activeLayerBuffer = 0
    /\ s.activeOffscreenFlip = 0 /\ s.activeOffscreenLayer = 0
    /\ InPalette(effectivePaperColor(s))
    /\ \A i \in Idx :
        /\ s.flipBuffers[i].px = [p \in Pts |-> effectivePaperColor(s)]
        /\ s.offscreenFlipBuffers[i].px = [p \in Pts |-> effectivePaperColor(s)]
        /\ s.layerBuffers[i].px = [p \in Pts |-> Transparent]
        /\ s.offscreenLayerBuffers[i].px = [p \in Pts |-> Transparent]

\* The step is the render loop receiving and executing the head of the
\* channel.
ExecutesHead ==
    /\ execPc = "drain"
    /\ commandChan # <<>>
    /\ commandChan' = Tail(commandChan)

\* C8: when the render loop has executed graphics N with N >= 1, the four
\* active indices are 0, the flip buffers (onscreen and offscreen) hold the
\* effective paper colour and the layer buffers are transparent.
C8_GraphicsResetsEverything ==
    [][(ExecutesHead /\ IsGraphicsN(Head(commandChan))) => AllBaseline(g')]_vars

\* C9: ink and paper are in 0..7 and the effective ink and paper are palette
\* indices, in 0..14.
C9_ColourStateInRange ==
    /\ g.defaultInk \in 0..7
    /\ g.defaultPaper \in 0..7
    /\ effectiveInkColor(g) \in 0..(PaletteLen - 1)
    /\ effectivePaperColor(g) \in 0..(PaletteLen - 1)

\* The position of the colour parameter of a draw command.
ColourPos(cmd) ==
    CASE cmd.Cmd \in {"plot", "lineto"} -> 3
      [] cmd.Cmd = "circle" -> 4
      [] cmd.Cmd \in {"line", "rect"} -> 5
      [] OTHER -> 7

\* A draw command with an explicit colour that is no palette index.
HasBadColour(cmd) ==
    /\ cmd.Mode # "query"
    /\ cmd.Cmd \in DrawCmds
    /\ Len(cmd.Params) >= ColourPos(cmd)
    /\ cmd.Params[ColourPos(cmd)] # -1
    /\ ~InPalette(cmd.Params[ColourPos(cmd)])

\* C10: when the render loop executes a draw command with an explicit colour
\* outside 0..14, the process goes on, no global changes and an error line
\* is written to the connection of the command.
C10_BadColourRecoveredLocally ==
    [][(ExecutesHead /\ HasBadColour(Head(commandChan))) =>
            LET c == Head(commandChan).Conn
            IN /\ ~g'.panicked
               /\ g' = g
               /\ \/ WriteFails(c)
                  \/ /\ Len(sockBuf'[c]) = Len(sockBuf[c]) + 1
                     /\ SubSeq(sockBuf'[c][Len(sockBuf'[c])], 1, 5) = "ERROR"
                  \/ SubSeq(execPending'.line, 1, 5) = "ERROR"]_vars

\* The lines the clients send when they draw with the ink.
InkLines ==
    {<<"ink", "3">>, <<"bright", "1">>, <<"plot", "0", "0">>,
     <<"plot", "0", "1", "3">>, <<"plot", "1", "1", "_">>, <<"ink", "?">>,
     <<"bogus">>}

SpecInk == Init /\ [][NextOn(InkLines)]_vars

SpecInkSolo == Init /\ [][NextSolo(InkLines)]_vars

\* A plot x y c with an explicit colour c in 0..7 and (x, y) a sample pixel.
IsPlotWithColour(cmd) ==
    /\ cmd.Mode # "query"
    /\ cmd.Cmd = "plot"
    /\ Len(cmd.Params) >= 3
    /\ cmd.Params[3] \in 0..7
    /\ <<cmd.Params[1], cmd.Params[2]>> \in Pts

\* The eraser override of layer mode is off.
EraserOff(s) == ~(s.currentDrawingMode = "layer" /\ s.eraserMode)

\* The effective index of base colour c with bright flag b.
Effective(c, b) == IF c = 0 \/ ~b THEN c ELSE c + 7

\* The colour of pixel (x, y) of the target buffer.
TargetPixel(s, x, y) == getTargetBuffer(s).px[<<x, y>>]

\* C11 as stated: after plot x y c with c in 0..7 the pixel (x, y) of the
\* target buffer is palette[c] with bright off or c = 0, palette[c + 7] with
\* bright on.
C11_PlotPaintsEffectiveOfColour ==
    [][(ExecutesHead /\ IsPlotWithColour(Head(commandChan)) /\ EraserOff(g)) =>
            LET cmd == Head(commandChan)
            IN TargetPixel(g', cmd.Params[1], cmd.Params[2])
                   = Effective(cmd.Params[3], g.defaultBright)]_vars

\* C11: after plot x y c with c in 0..7 the pixel (x, y) of the target
\* buffer is palette[c], whatever the bright flag is: an explicit colour is
\* a palette index and is not brightened.
C11_PlotPaintsColourGiven ==
    [][(ExecutesHead /\ IsPlotWithColour(Head(commandChan)) /\ EraserOff(g)) =>
            LET cmd == Head(commandChan)
            IN /\ ~g'.panicked
               /\ TargetPixel(g', cmd.Params[1], cmd.Params[2]) = cmd.Params[3]]_vars

\* plot 0 1 3 was executed with bright on and the pixel holds palette[3].
C11_Witness ==
    /\ g.defaultBright
    /\ \E i \in 1..Len(execLog) :
            /\ i > 1
            /\ execLog[i - 1].cmd.Cmd = "bright"
            /\ IsPlotWithColour(execLog[i].cmd)
    /\ g.flipBuffers[0].px[<<0, 1>>] = 3

\* The command parseCommand makes of a line that parses.
Parsed(fields) == parseCommand(fields).dc

\* The commands of the lines ink n, plot x y and plot x y c, as tables.
InkCmd == [n \in 0..7 |-> Parsed(<<"ink", ToString(n)>>)] @@ <<>>
PlotCmd ==
    [p \in Pts |-> Parsed(<<"plot", ToString(p[1]), ToString(p[2])>>)] @@ <<>>
PlotColourCmd ==
    [p \in Pts |->
        [c \in 0..(PaletteLen - 1) |->
            Parsed(<<"plot", ToString(p[1]), ToString(p[2]), ToString(c)>>)]
          @@ <<>>] @@ <<>>

\* The pixel (x, y) of the target after the commands of q are executed in s.
PixelAfter(s, q, x, y) == TargetPixel(Replay(s, q), x, y)

\* C12 as stated: in every state, ink n followed by plot x y leaves the
\* colour at (x, y) that plot x y n leaves.
C12_InkThenPlotAsPlotWithColour ==
    Running =>
        \A n \in 0..7 : \A p \in Pts :
            EraserOff(g) =>
                PixelAfter(g, <<InkCmd[n], PlotCmd[p]>>, p[1], p[2])
                  = PixelAfter(g, <<PlotColourCmd[p][n]>>, p[1], p[2])

\* C12: in every state, ink n followed by plot x y leaves the colour at
\* (x, y) that plot x y e leaves, e being the effective ink of n: n with
\* bright off or n = 0, n + 7 with bright on.
C12_InkThenPlotAsPlotWithEffective ==
    Running =>
        \A n \in 0..7 : \A p \in Pts :
            LET e == Effective(n, g.defaultBright)
            IN EraserOff(g) =>
                /\ ~Replay(g, <<InkCmd[n], PlotCmd[p]>>).panicked
                /\ PixelAfter(g, <<InkCmd[n], PlotCmd[p]>>, p[1], p[2])
                     = PixelAfter(g, <<PlotColourCmd[p][e]>>, p[1], p[2])

\* With bright on, ink 3 and then plot 0 0 were executed and the pixel holds
\* palette[10].
C12_Witness ==
    /\ g.defaultBright
    /\ \E i \in 1..Len(execLog) :
            /\ i > 1
            /\ execLog[i - 1].cmd.Cmd = "ink"
            /\ execLog[i].cmd.Cmd = "plot"
            /\ Len(execLog[i].cmd.Params) = 2
    /\ g.flipBuffers[0].px[<<0, 0>>] = 10

\* A draw command whose colour is the sentinel: omitted or -1.
IsSentinelDraw(cmd) ==
    /\ cmd.Mode # "query"
    /\ cmd.Cmd \in DrawCmds
    /\ Len(cmd.Params) >= ColourPos(cmd) - 1
    /\ Len(cmd.Params) >= ColourPos(cmd) => cmd.Params[ColourPos(cmd)] = -1

\* The command with its colour parameter set to c.
WithColour(cmd, c) ==
    [cmd EXCEPT !.Params =
        [i \in 1..Len(@) |-> IF i = ColourPos(cmd) THEN c ELSE @[i]]
            \o (IF Len(@) < ColourPos(cmd) THEN <<c>> ELSE <<>>)]

\* The command at the head of the channel as its reader parsed it: the
\* next command of its connection that the render loop has not received.
HeadAsParsed ==
    LET c == Head(commandChan).Conn
    IN sent[c][Len(OfConn(ExecutedCmds, c)) + 1]

\* C13: a draw command parsed with the sentinel colour does, when the render
\* loop executes it, what the same command with the effective ink of that
\* moment as explicit colour does; a plot leaves that effective ink at its
\* pixel.
C13_SentinelResolvedAtExecution ==
    [][(ExecutesHead /\ IsSentinelDraw(HeadAsParsed)) =>
            LET cmd == HeadAsParsed
                ink == effectiveInkColor(g)
            IN /\ g' = execCommand(g, WithColour(cmd, ink)).s
               /\ (cmd.Cmd = "plot" /\ EraserOff(g) /\ InPalette(ink)
                    /\ <<cmd.Params[1], cmd.Params[2]>> \in Pts) =>
                      TargetPixel(g', cmd.Params[1], cmd.Params[2]) = ink]_vars

\* ink 3 was executed while the plot behind it was already in the channel,
\* and the plot has painted palette[3], not the palette[7] of its parse time.
C13_Witness ==
    \E i \in 1..Len(execLog) :
        /\ i > 1
        /\ execLog[i - 1].cmd.Cmd = "ink"
        /\ execLog[i - 1].cmd.Mode # "query"
        /\ execLog[i - 1].drawBehind
        /\ \A k \in 1..(i - 1) : execLog[k].cmd.Cmd # "bright"
        /\ execLog[i].cmd.Cmd = "plot"
        /\ IsSentinelDraw(execLog[i].cmd)
        /\ g.flipBuffers[0].px[<<execLog[i].cmd.Params[1],
                                  execLog[i].cmd.Params[2]>>] = 3


\* ---- C14..C18: the lines of a session that selects buffers.
SelectLines ==
    {<<"plot", "0", "0", "2">>, <<"flip", "3">>, <<"flip", "0">>,
     <<"flip", "9">>, <<"flip", "1", "2">>, <<"layer", "2">>,
     <<"layer", "_">>, <<"paint", "1">>, <<"flip", "?">>}

SpecSelect == Init /\ [][NextOn(SelectLines)]_vars

\* The buffers the render loop composites to the window, flip first.
Displayed(s) ==
    [flip |-> s.flipBuffers[s.activeFlipBuffer],
     layer |-> s.layerBuffers[s.activeLayerBuffer]]

\* The onscreen buffers of the kind that command flip or layer is about.
KindBuffers(s, cmd) ==
    IF cmd.Cmd = "flip" THEN s.flipBuffers ELSE s.layerBuffers

\* The globals before and after the render loop executed execLog[i].
StateBefore(i) == Replay(InitGlobals, SubSeq(ExecutedCmds, 1, i - 1))
StateAfter(i) == Replay(InitGlobals, SubSeq(ExecutedCmds, 1, i))

\* flip N or layer N with one index N taken from S.
IsSelectOf(cmd, S) ==
    /\ IsSelect(cmd)
    /\ Len(cmd.Params) = 1
    /\ cmd.Params[1] \in S

\* The handler of cmd writes an error line to the connection.
RepliesError(s, cmd) ==
    LET out == execCommand(s, cmd).out
    IN out # <<>> /\ Len(out[1]) >= 5 /\ SubSeq(out[1], 1, 5) = "ERROR"

\* C14 as stated: flip N (layer N) with N in 1..7 exchanges buffer N and
\* buffer 0 of its kind, and when the same command is executed twice in a row
\* the displayed buffers and the eight buffers of each kind are what they
\* were before the two.
C14_SwapTwiceRestores ==
    \A i \in 2..Len(execLog) :
        LET first == execLog[i - 1].cmd
            second == execLog[i].cmd
        IN (/\ IsSelectOf(first, 1..(numFlipBuffers - 1))
            /\ second.Mode # "query"
            /\ second.Cmd = first.Cmd
            /\ second.Params = first.Params) =>
              LET before == StateBefore(i - 1)
                  mid == StateBefore(i)
                  after == StateAfter(i)
                  N == first.Params[1]
              IN /\ KindBuffers(mid, first)[0] = KindBuffers(before, first)[N]
                 /\ KindBuffers(mid, first)[N] = KindBuffers(before, first)[0]
                 /\ Displayed(after) = Displayed(before)
                 /\ after.flipBuffers = before.flipBuffers
                 /\ after.layerBuffers = before.layerBuffers

\* C15 as stated: flip N (layer N) with N = 0 or N outside 0..7 is answered
\* with an error line and leaves the buffers and the active indices as they
\* were.
C15_SwapWithBadIndexRejected ==
    [][(ExecutesHead
          /\ IsSelectOf(Head(commandChan), AtoiRange \ (1..(numFlipBuffers - 1)))) =>
            /\ RepliesError(g, Head(commandChan))
            /\ g' = g]_vars

\* C16 as stated: in every state the buffers composited to the window are
\* buffer 0 of each kind.
C16_DisplayedIsBufferZero ==
    Displayed(g) = [flip |-> g.flipBuffers[0], layer |-> g.layerBuffers[0]]

\* The results of parsing the lines paint N.
PaintCmd == [N \in Idx |-> parseCommand(<<"paint", ToString(N)>>)] @@ <<>>

\* C17 as stated: in every state, paint N with N in 0..7 followed by a plot
\* paints buffer N of the current kind, and leaves the displayed buffers
\* alone when N is not the displayed one.
C17_PaintSelectsDrawBuffer ==
    Running =>
        \A N \in Idx :
            /\ PaintCmd[N].err = ""
            /\ LET after == Replay(g, <<PaintCmd[N].dc, PlotColourCmd[<<0, 0>>][2]>>)
               IN /\ after[TargetKind(g)][N].px[<<0, 0>>] = 2
                  /\ N # TargetIndex(g) => Displayed(after) = Displayed(g)

\* A select that the handlers ignore: more than one argument, or an index
\* outside 0..7.
IsIgnoredSelect(cmd) ==
    /\ IsSelect(cmd)
    /\ \/ Len(cmd.Params) > 1
       \/ Len(cmd.Params) = 1 /\ cmd.Params[1] \notin Idx

\* C18: every active index is in 0..7 in every state; a flip or layer command
\* with an index outside 0..7 (the placeholder's -1 included) or with more
\* than one argument changes nothing; flip leaves the active layer index and
\* layer the active flip index as it was.
C18_SelectKeepsIndicesInRange ==
    /\ [](/\ g.activeFlipBuffer \in Idx
          /\ g.activeLayerBuffer \in Idx
          /\ g.activeOffscreenFlip \in Idx
          /\ g.activeOffscreenLayer \in Idx)
    /\ [][(ExecutesHead /\ IsSelect(Head(commandChan))) =>
            LET cmd == Head(commandChan)
            IN /\ IsIgnoredSelect(cmd) => g' = g
               /\ cmd.Cmd = "flip" => g'.activeLayerBuffer = g.activeLayerBuffer
               /\ cmd.Cmd = "layer" => g'.activeFlipBuffer = g.activeFlipBuffer]_vars

\* flip 3 and then an ignored flip (flip 9 or flip 1 2) were executed and the
\* active flip buffer is still 3, the active layer buffer still 0.
C18_Witness ==
    /\ g.activeFlipBuffer = 3
    /\ g.activeLayerBuffer = 0
    /\ \E i \in 2..Len(execLog) :
            /\ IsSelectOf(execLog[i - 1].cmd, {3})
            /\ execLog[i - 1].cmd.Cmd = "flip"
            /\ IsIgnoredSelect(execLog[i].cmd)


\* ---- C19, C20: sessions that allocate and delete textures, started when
\* earlier tex add commands have filled no slot, slots 0..2, or every slot.
TexLines ==
    {<<"tex", "add", "2", "1", "1">>, <<"tex", "add", "22", "1", "1">>,
     <<"tex", "del", "1">>, <<"tex", "del", "0">>, <<"tex", "add">>}

\* The entry that tex add 1 1 1 stores.
OldEntry == Entry(1, 1, createTextureFromPixelData("1", 1, 1).data)

\* The texture table after tex add 1 1 1 was executed n times from startup.
FilledTo(n) == [i \in 0..(n - 1) |-> OldEntry]

TexStart == {FilledTo(0), FilledTo(3), FilledTo(NumTextures)}

InitTex ==
    /\ g \in {[InitGlobals EXCEPT !.textures = tx] : tx \in TexStart}
    /\ commandChan = <<>>
    /\ reader = [c \in Conns |-> [pc |-> "scan", cmd |-> ZeroCmd, err |-> ""]]
    /\ peerClosed = [c \in Conns |-> FALSE]
    /\ sockBuf = [c \in Conns |-> <<>>]
    /\ execPc = "drain"
    /\ execPending = NoWrite
    /\ nLines = 0
    /\ sent = [c \in Conns |-> <<>>]
    /\ enqLog = <<>>
    /\ execLog = <<>>
    /\ ev = NoEvents

SpecTex == InitTex /\ [][NextOn(TexLines)]_vars

\* A tex add whose parameters and pixel data are valid.
IsValidTexAdd(cmd) ==
    /\ cmd.Cmd = "tex"
    /\ cmd.Mode = "add"
    /\ Len(cmd.Params) >= 2
    /\ createTextureFromPixelData(cmd.Str, cmd.Params[1], cmd.Params[2]).err = ""

\* Every texture slot is in use.
AllInUse(s) == \A i \in Slots : InUse(s, i)

\* The render loop writes line to connection c in this step: into the
\* client's buffer, or it blocks on the write, or the connection is gone.
Answers(c, line) ==
    \/ WriteFails(c) /\ sockBuf' = sockBuf
    \/ sockBuf' = [sockBuf EXCEPT ![c] = Append(@, line)]
    \/ execPending' = [conn |-> c, line |-> line]

\* C19: when every one of the 256 slots is in use, a tex add with valid pixel
\* data is answered with the error "no free texture slots" and changes no
\* slot (and no other global).
C19_FullTableRejectsTexAdd ==
    [][(ExecutesHead /\ IsValidTexAdd(Head(commandChan)) /\ AllInUse(g)) =>
            /\ g' = g
            /\ \A i \in Slots : InUse(g', i) /\ g'.textures[i] = g.textures[i]
            /\ Answers(Head(commandChan).Conn,
                       "ERROR 0022 : no free texture slots")]_vars

\* Only valid tex add commands were executed, the first of them when all 256
\* slots were in use, and every slot still holds its old entry.
C19_Witness ==
    /\ execLog # <<>>
    /\ \A i \in 1..Len(execLog) : IsValidTexAdd(execLog[i].cmd)
    /\ g.textures = FilledTo(NumTextures)

IsTexAdd(cmd) == cmd.Mode = "add" /\ cmd.Cmd = "tex"

\* An error line.
IsErrorLine(line) == Len(line) >= 5 /\ SubSeq(line, 1, 5) = "ERROR"

\* The render loop writes one error line to connection c in this step.
AnswersError(c) ==
    \/ WriteFails(c) /\ sockBuf' = sockBuf
    \/ /\ Len(sockBuf'[c]) = Len(sockBuf[c]) + 1
       /\ sockBuf' = [sockBuf EXCEPT ![c] = Append(@, sockBuf'[c][Len(sockBuf'[c])])]
       /\ IsErrorLine(sockBuf'[c][Len(sockBuf'[c])])
    \/ /\ execPending'.conn = c
       /\ IsErrorLine(execPending'.line)
       /\ sockBuf' = sockBuf

\* The slots in use after the step that were not in use before it.
NewSlots == {i \in Slots : InUse(g', i) /\ ~InUse(g, i)}

TexOpsLines ==
    {<<"tex", "set", "1", "2", "1", "1">>, <<"tex", "set", "5", "2", "1", "1">>,
     <<"tex", "set", "256", "2", "1", "1">>,
     <<"tex", "set", "1", "22", "1", "1">>,
     <<"tex", "del", "1">>, <<"tex", "del", "256">>,
     <<"tex", "paint", "0", "0", "1">>,
     <<"tex", "add", "2", "1", "1">>, <<"tex", "add", "x", "1", "1">>,
     <<"tex", "add">>}

SpecTexOps == InitTex /\ [][NextSolo(TexOpsLines)]_vars

IsTexSet(cmd) == cmd.Cmd = "tex" /\ cmd.Mode = "set" /\ Len(cmd.Params) >= 3
IsTexDel(cmd) == cmd.Cmd = "tex" /\ cmd.Mode = "del" /\ Len(cmd.Params) >= 1
IsTexPaint(cmd) == cmd.Cmd = "tex" /\ cmd.Mode = "paint" /\ Len(cmd.Params) >= 3

\* The payload does not decode to a width x height texture.
BadPayload(cmd, w, h) == createTextureFromPixelData(cmd.Str, w, h).err # ""

\* Slot n cannot be used by a command that needs a texture in it.
BadSlot(s, n) == n \notin Slots \/ ~InUse(s, n)

\* The step wrote nothing to any connection.
WritesNothing == sockBuf' = sockBuf /\ execPending' = execPending

\* C21 as stated: tex set n fails, with an error line, no slot changed and
\* the render loop alive, when n is outside 0..255 or slot n is not in use;
\* when it succeeds slot n holds the new texture, the same slots are in use
\* and no other slot is changed.
C21_TexSetChecksSlot ==
    [][(ExecutesHead /\ IsTexSet(Head(commandChan))) =>
            LET cmd == Head(commandChan)
                n == cmd.Params[1]
            IN IF BadSlot(g, n)
               THEN /\ ~g'.panicked
                    /\ g'.textures = g.textures
                    /\ AnswersError(cmd.Conn)
               ELSE ~BadPayload(cmd, cmd.Params[2], cmd.Params[3]) =>
                    /\ g' = SetTexture(g, n,
                              Entry(cmd.Params[2], cmd.Params[3],
                                    createTextureFromPixelData(cmd.Str,
                                        cmd.Params[2], cmd.Params[3]).data))
                    /\ DOMAIN g'.textures = DOMAIN g.textures]_vars

\* A texture command that, by its parameters and the pool, has to fail when
\* it is executed.
FailsAtExecution(s, cmd) ==
    \/ /\ IsTexAdd(cmd) /\ Len(cmd.Params) >= 2
       /\ BadPayload(cmd, cmd.Params[1], cmd.Params[2]) \/ AllInUse(s)
    \/ /\ IsTexSet(cmd)
       /\ BadPayload(cmd, cmd.Params[2], cmd.Params[3]) \/ BadSlot(s, cmd.Params[1])
    \/ IsTexDel(cmd) /\ BadSlot(s, cmd.Params[1])
    \/ IsTexPaint(cmd) /\ BadSlot(s, cmd.Params[3])

\* C22 as stated: a texture command that fails at execution is answered with
\* an error line and leaves the texture pool and every surface (every global)
\* as it was.
C22_FailedTexCommandChangesNothing ==
    [][(ExecutesHead /\ FailsAtExecution(g, Head(commandChan))) =>
            /\ g' = g
            /\ AnswersError(Head(commandChan).Conn)]_vars

\* C26: tex del n with n outside 0..255 or slot n not in use changes nothing
\* and is answered with an error line; otherwise it frees slot n, changes no
\* other slot or global and writes nothing.  A tex del n or tex paint x y n
\* executed right after a tex del n therefore fails: error line, nothing
\* changed.
C26_TexDelFreesOnlyItsSlot ==
    [][/\ (ExecutesHead /\ IsTexDel(Head(commandChan))) =>
            LET cmd == Head(commandChan)
                n == cmd.Params[1]
            IN IF BadSlot(g, n)
               THEN g' = g /\ AnswersError(cmd.Conn)
               ELSE /\ ~InUse(g', n)
                    /\ g' = ClearTexture(g, n)
                    /\ \A i \in Slots \ {n} :
                          /\ InUse(g', i) = InUse(g, i)
                          /\ InUse(g, i) => g'.textures[i] = g.textures[i]
                    /\ WritesNothing
       /\ (/\ ExecutesHead
           /\ execLog # <<>>
           /\ IsTexDel(execLog[Len(execLog)].cmd)
           /\ LET n == execLog[Len(execLog)].cmd.Params[1]
                  cmd == Head(commandChan)
              IN \/ IsTexDel(cmd) /\ cmd.Params[1] = n
                 \/ IsTexPaint(cmd) /\ cmd.Params[3] = n) =>
             /\ g' = g
             /\ AnswersError(Head(commandChan).Conn)]_vars

\* Slots 0..2 were in use, tex del 1 and then tex paint 0 0 1 were executed:
\* slot 1 is free, slots 0 and 2 hold their textures, the surface is as it
\* was at startup and the connection holds the error line.
C26_Witness ==
    /\ Len(execLog) = 2
    /\ IsTexDel(execLog[1].cmd) /\ execLog[1].cmd.Params[1] = 1
    /\ IsTexPaint(execLog[2].cmd)
    /\ DOMAIN g.textures = {0, 2}
    /\ g.textures[0] = OldEntry /\ g.textures[2] = OldEntry
    /\ g.flipBuffers = InitGlobals.flipBuffers
    /\ \E i \in 1..Len(sockBuf[1]) :
            sockBuf[1][i] = "ERROR 0029 : invalid texture number"


\* ---- C28: a line that does not parse.

\* The reader of c has just found that its line does not parse.
ParseFails(c) == reader[c].pc = "scan" /\ reader'[c].pc = "reply"

\* The reader of c has written its error and is back at the scanner.
ErrorReplied(c) == reader[c].pc = "reply" /\ reader'[c].pc # "reply"

\* The commands, the channel and the render loop are as they were.
SharedUnchanged ==
    /\ g' = g
    /\ commandChan' = commandChan
    /\ enqLog' = enqLog
    /\ execLog' = execLog
    /\ execPc' = execPc
    /\ execPending' = execPending

\* The other connections are as they were.
OthersUnchanged(c) ==
    \A d \in Conns \ {c} :
        /\ reader'[d] = reader[d]
        /\ sockBuf'[d] = sockBuf[d]
        /\ sent'[d] = sent[d]
        /\ peerClosed'[d] = peerClosed[d]

\* C28: a line that fails to parse writes exactly one line, the parse error,
\* to the connection that sent it (nothing when that connection is already
\* closed); nothing is enqueued, no shared state changes, the other
\* connections are untouched, and the reader is back at the scanner for the
\* connection's next line.
C28_ParseErrorIsLocal ==
    [][\A c \in Conns :
          /\ ParseFails(c) =>
                /\ reader'[c].err # ""
                /\ sent' = sent
                /\ sockBuf' = sockBuf
                /\ SharedUnchanged
                /\ OthersUnchanged(c)
          /\ ErrorReplied(c) =>
                /\ IF WriteFails(c)
                   THEN sockBuf'[c] = sockBuf[c]
                   ELSE sockBuf'[c] = Append(sockBuf[c], reader[c].err)
                /\ reader'[c].pc = IF peerClosed[c] THEN "closed" ELSE "scan"
                /\ sent' = sent
                /\ SharedUnchanged
                /\ OthersUnchanged(c)]_vars

\* Connection 1 has been sent the error of a line that did not parse and its
\* next line has been parsed and is in the channel; connection 2 has a command
\* in the channel as well.
C28_Witness ==
    /\ sockBuf[1] = <<parseCommand(<<"bogus">>).err>>
    /\ Len(sent[1]) = 1
    /\ \E i \in 1..Len(commandChan) : commandChan[i] = sent[1][1]
    /\ \E i \in 1..Len(commandChan) : commandChan[i].Conn = 2


\* ---- C29, C30: the shape commands in the parser.

\* Shape commands with the placeholder and with mode letters, a plot with the
\* placeholder, a query and a command nobody knows.
ShapeLines ==
    {<<"circle", "0", "0", "1", "_", "F">>, <<"rect", "0", "0", "1", "1", "_">>,
     <<"rect", "0", "0", "1", "1", "T">>, <<"circle", "0", "0", "1", "T">>,
     <<"circle", "0", "0", "1", "2", "s">>, <<"rect", "0", "0", "1", "1", "X">>,
     <<"plot", "0", "0", "_">>, <<"ink", "?">>}

SpecShape == Init /\ [][NextSolo(ShapeLines)]_vars

HasPlaceholder(fields) == \E i \in 2..Len(fields) : fields[i] = "_"

\* The line with -1 written out where it has the placeholder.
WithSentinel(fields) ==
    [i \in 1..Len(fields) |-> IF i > 1 /\ fields[i] = "_" THEN "-1" ELSE fields[i]]

\* The reader of c has parsed its line to dc and is about to send it.
ParsesTo(c, dc) ==
    reader'[c] = [pc |-> "send", cmd |-> [dc EXCEPT !.Conn = c], err |-> ""]

\* C29: a line with the placeholder _ where a number is expected parses to
\* the command that the same line with -1 in its place parses to.
C29_PlaceholderIsSentinel ==
    [][\A c \in Conns : \A fields \in ShapeLines :
          (/\ HasPlaceholder(fields)
           /\ parseCommand(WithSentinel(fields)).err = ""
           /\ Scan(c, fields))
          => ParsesTo(c, parseCommand(WithSentinel(fields)).dc)]_vars

IsShapeLine(fields) == ToLower(fields[1]) \in {"rect", "circle", "triangle"}

\* The last token of a shape command is not a number: it is the mode.
EndsWithMode(fields) ==
    IsShapeLine(fields) /\ Len(fields) > 1 /\ ~Atoi(fields[Len(fields)]).ok

\* The mode letters of each shape command.
ModeLetters(cmd) == IF cmd = "rect" THEN {"F", "S", "T"} ELSE {"F", "S"}

WithoutMode(fields) == SubSeq(fields, 1, Len(fields) - 1)

\* C30: a shape command whose last token is not a number is the command
\* without that token, in the mode the token names, when the token is a mode
\* letter of the command in either case (F, S for circle and triangle, F, S,
\* T for rect); with any other token it is a parse error.
C30_ShapeModeLetters ==
    [][\A c \in Conns : \A fields \in ShapeLines :
          (EndsWithMode(fields) /\ Scan(c, fields))
          => LET letter == ToUpper(fields[Len(fields)])
                 base == parseCommand(WithoutMode(fields))
             IN IF letter \in ModeLetters(ToLower(fields[1])) /\ base.err = ""
                THEN ParsesTo(c, [base.dc EXCEPT !.Mode = letter])
                ELSE ParseFails(c)]_vars


\* ---- The parser of commands.go, whose shape commands have the mode T.

\* parseShapeCommand of commands.go: the last token is the mode when it is S,
\* F or T in either case, for each of the three shapes.
commands_parseShapeCommand(cmd, fields) ==
    LET last == fields[Len(fields)]
        lastToken == ToUpper(last)
        hasMode == Len(fields) - 1 > 0 /\ lastToken \in {"S", "F", "T"}
        tokenCount == IF hasMode THEN Len(fields) - 2 ELSE Len(fields) - 1
        mode == IF hasMode THEN lastToken ELSE "F"
        conv == ConvertAll(FALSE, fields, 2, tokenCount + 1)
        n == Len(conv.params)
        arity == CASE cmd = "rect" -> 4 [] cmd = "circle" -> 3 [] OTHER -> 6
    IN IF Len(fields) - 1 > 0 /\ ~hasMode /\ ~Atoi(last).ok
       THEN Fail(cmd \o " mode must be S, F, or T")
       ELSE IF ~conv.ok THEN Fail("invalid parameter " \o Quote(conv.bad))
       ELSE IF n = arity
       THEN Ok([ZeroCmd EXCEPT !.Cmd = cmd, !.Params = conv.params \o <<-1>>,
                  !.Mode = mode])
       ELSE IF n = arity + 1
       THEN Ok([ZeroCmd EXCEPT !.Cmd = cmd, !.Params = conv.params, !.Mode = mode])
       ELSE Fail(cmd \o " requires " \o ToString(arity) \o " or "
                   \o ToString(arity + 1) \o " numeric parameters, plus optional mode")


\* parseCommand of commands.go found an index past the end of fields: the Go
\* runtime panics in the reader's goroutine, which ends the process.
Crash == [err |-> "panic: index out of range", dc |-> ZeroCmd]

\* parseTextureCommand of commands.go
commands_parseTextureCommand(fields) ==
    IF Len(fields) < 2 THEN Fail("invalid texture command")
    ELSE LET mode == ToLower(fields[2])
         IN CASE mode \in {"add", "set"} ->
                   IF Len(fields) < 4
                   THEN Fail("insufficient parameters for tex " \o mode)
                   ELSE IF mode = "set" /\ Len(fields) < 5
                   THEN Fail("insufficient parameters for tex set")
                   ELSE IF mode = "set" /\ ~Atoi(fields[3]).ok
                   THEN Fail("invalid texture number")
                   ELSE LET startIdx == IF mode = "set" THEN 4 ELSE 3
                            head == IF mode = "set" THEN <<Atoi(fields[3]).val>> ELSE <<>>
                        IN IF Len(fields) < startIdx + 1 THEN Crash
                           ELSE IF ~Atoi(fields[startIdx + 1]).ok THEN Fail("invalid width")
                           ELSE IF Len(fields) < startIdx + 2 THEN Crash
                           ELSE IF ~Atoi(fields[startIdx + 2]).ok THEN Fail("invalid height")
                           ELSE Ok([ZeroCmd EXCEPT
                                      !.Cmd = "tex", !.Mode = mode, !.Str = fields[startIdx],
                                      !.Params = head \o <<Atoi(fields[startIdx + 1]).val,
                                                           Atoi(fields[startIdx + 2]).val>>])
              [] mode = "del" ->
                   IF Len(fields) < 3 THEN Fail("texture number required")
                   ELSE IF ~Atoi(fields[3]).ok THEN Fail("invalid texture number")
                   ELSE Ok([ZeroCmd EXCEPT !.Cmd = "tex", !.Mode = mode,
                              !.Params = <<Atoi(fields[3]).val>>])
              [] mode = "paint" ->
                   IF Len(fields) < 5 THEN Fail("insufficient parameters for tex paint")
                   ELSE IF ~Atoi(fields[3]).ok THEN Fail("invalid x coordinate")
                   ELSE IF ~Atoi(fields[4]).ok THEN Fail("invalid y coordinate")
                   ELSE IF ~Atoi(fields[5]).ok THEN Fail("invalid texture number")
                   ELSE Ok([ZeroCmd EXCEPT !.Cmd = "tex", !.Mode = mode,
                              !.Params = <<Atoi(fields[3]).val, Atoi(fields[4]).val,
                                           Atoi(fields[5]).val>>])
              [] OTHER -> Fail("unknown texture command mode: " \o mode)

\* parsePaintCommand of commands.go
commands_parsePaintCommand(fields) ==
    IF Len(fields) = 2
    THEN IF ToLower(fields[2]) \in {"flip", "layer"}
         THEN Ok([ZeroCmd EXCEPT !.Cmd = "paint", !.Mode = ToLower(fields[2])])
         ELSE IF ~Atoi(fields[2]).ok
         THEN Fail("paint parameter must be number, flip, or layer")
         ELSE Ok([ZeroCmd EXCEPT !.Cmd = "paint", !.Params = <<Atoi(fields[2]).val>>])
    ELSE Ok([ZeroCmd EXCEPT !.Cmd = "paint", !.Params = <<0>>])

\* parseQueryCommand of commands.go
commands_parseQueryCommand(fields) ==
    IF Len(fields) = 0 THEN Fail("empty query command")
    ELSE Ok([ZeroCmd EXCEPT !.Cmd = fields[1], !.Mode = "query"])

\* parseRegularCommand of commands.go
commands_parseRegularCommand(cmd, fields) ==
    IF cmd \in {"plot", "line", "lineto", "ink", "paper", "bright", "colour", "cls",
                "flip", "layer"}
    THEN LET conv == ConvertAll(TRUE, fields, 2, Len(fields))
         IN IF ~conv.ok THEN Fail("invalid parameter " \o Quote(conv.bad))
            ELSE Ok([ZeroCmd EXCEPT !.Cmd = cmd, !.Params = conv.params])
    ELSE IF cmd \in {"rect", "circle", "triangle"}
    THEN commands_parseShapeCommand(cmd, fields)
    ELSE Fail("unknown command " \o Quote(cmd))

\* parseCommand of commands.go on the fields of a line.
commands_parseCommand(fields) ==
    IF Len(fields) = 0 THEN Fail("empty command")
    ELSE LET cmd == ToLower(fields[1])
         IN IF fields[Len(fields)] = "?"
            THEN commands_parseQueryCommand(SubSeq(fields, 1, Len(fields) - 1))
            ELSE IF cmd = "tex" THEN commands_parseTextureCommand(fields)
            ELSE IF cmd = "paint" THEN commands_parsePaintCommand(fields)
            ELSE commands_parseRegularCommand(cmd, fields)


\* ---- The texture functions of buffers.go and the capture of network.go.

\* What a function returning (int, error) did: the slot, the error ("" for
\* nil) and the globals after it.
Slot(s, slot) == [slot |-> slot, err |-> "", s |-> s]
Err(s, msg) == [slot |-> -1, err |-> msg, s |-> s]

\* The palette index of a pixel-data character in CreateTextureFromPixelData:
\* -3 for a character that is no hex digit and no alias.  The fourth alias,
\* the backquote for black, is a character no TLA+ string can hold.
PixelChar(ch) ==
    CASE ch = "." -> Transparent
      [] ch = "@" -> 7
      [] ch = "%" -> PaletteLen - 1
      [] OTHER -> IF HexVal(ch) < 0 THEN -3
                  ELSE IF HexVal(ch) >= PaletteLen THEN PaletteLen - 1
                  ELSE HexVal(ch)

\* CreateTextureFromPixelData of buffers.go
CreateTextureFromPixelData(s, pixelData, width, height) ==
    LET slot == findFirstFreeTextureSlot(s)
    IN IF slot = -1 THEN Err(s, "no free texture slots")
       ELSE IF Len(pixelData) # width * height
       THEN Err(s, "pixel data length (" \o ToString(Len(pixelData))
                     \o ") does not match dimensions " \o ToString(width)
                     \o "x" \o ToString(height))
       ELSE IF \E i \in 1..Len(pixelData) : PixelChar(SubSeq(pixelData, i, i)) = -3
       THEN LET i == CHOOSE k \in 1..Len(pixelData) :
                         /\ PixelChar(SubSeq(pixelData, k, k)) = -3
                         /\ \A j \in 1..(k - 1) : PixelChar(SubSeq(pixelData, j, j)) # -3
            IN Err(s, "invalid character '" \o SubSeq(pixelData, i, i)
                        \o "' - must be hex digit or an alias")
       ELSE Slot(SetTexture(s, slot,
                    Entry(width, height,
                          [i \in 1..Len(pixelData) |-> PixelChar(SubSeq(pixelData, i, i))])),
                 slot)

\* The width and height of every surface of the buffer system (main and
\* handleGraphics create it with BaseWidth*graphicsMult, BaseHeight*graphicsMult).
SurfaceWidth(s) == BaseWidth * s.graphicsMult
SurfaceHeight(s) == BaseHeight * s.graphicsMult

\* rl.LoadImageFromTexture and rl.ImageCrop: the pixels of the region, row by
\* row, as far as the region covers sample pixels.
CropPixels(rt, x, y, w, h) ==
    LET R == RectPts(x, y, w, h)
        at(p) == (p[2] - y) * w + (p[1] - x) + 1
    IN [i \in {at(p) : p \in R} |-> rt.px[CHOOSE p \in R : at(p) = i]]

\* A capture that takes the region's size from the top left corner of the
\* surface.
CreateTextureFromBufferAtOrigin(s, source, region) ==
    LET slot == findFirstFreeTextureSlot(s)
    IN IF slot = -1 THEN Err(s, "no free texture slots")
       ELSE IF \/ region.X < 0 \/ region.Y < 0
               \/ region.Width <= 0 \/ region.Height <= 0
               \/ region.X + region.Width > SurfaceWidth(s)
               \/ region.Y + region.Height > SurfaceHeight(s)
       THEN Err(s, "invalid region bounds")
       ELSE Slot(SetTexture(s, slot,
                    Entry(region.Width, region.Height,
                          CropPixels(source, 0, 0, region.Width, region.Height))),
                 slot)

\* A capture that does not compare the region with the size of the surface.
CreateTextureFromBufferUnbounded(s, source, region) ==
    LET slot == findFirstFreeTextureSlot(s)
    IN IF slot = -1 THEN Err(s, "no free texture slots")
       ELSE IF \/ region.X < 0 \/ region.Y < 0
               \/ region.Width <= 0 \/ region.Height <= 0
       THEN Err(s, "invalid region bounds")
       ELSE Slot(SetTexture(s, slot,
                    Entry(region.Width, region.Height,
                          CropPixels(source, region.X, region.Y,
                                     region.Width, region.Height))),
                 slot)

\* CreateTextureFromBuffer
CreateTextureFromBuffer(s, source, region) ==
    LET slot == findFirstFreeTextureSlot(s)
    IN IF slot = -1 THEN Err(s, "no free texture slots")
       ELSE IF \/ region.X < 0 \/ region.Y < 0
               \/ region.Width <= 0 \/ region.Height <= 0
               \/ region.X + region.Width > SurfaceWidth(s)
               \/ region.Y + region.Height > SurfaceHeight(s)
       THEN Err(s, "invalid region bounds")
       ELSE Slot(SetTexture(s, slot,
                    Entry(region.Width, region.Height,
                          CropPixels(source, region.X, region.Y,
                                     region.Width, region.Height))),
                 slot)

\* BufferSystem.activeTarget: NewBufferSystem sets it to 0 and nothing calls
\* SetActiveTarget.
activeTarget == 0

\* GetTargetBuffers and the choice between flip and layer that
\* handleTextureCapture and handleTexCommand make: "flipBuffers" or
\* "layerBuffers".
TargetBuffers(s) == IF s.currentDrawingMode = "layer" THEN "layerBuffers" ELSE "flipBuffers"

\* handleTextureCapture
handleTextureCapture(s, cmd) ==
    IF Len(cmd.Params) < 4 THEN Err(s, "invalid capture parameters")
    ELSE IF \/ cmd.Params[1] < 0 \/ cmd.Params[2] < 0
            \/ cmd.Params[3] <= 0 \/ cmd.Params[4] <= 0
    THEN Err(s, "invalid region bounds")
    ELSE LET region == [X |-> cmd.Params[1], Y |-> cmd.Params[2],
                        Width |-> cmd.Params[3], Height |-> cmd.Params[4]]
             r == CreateTextureFromBuffer(s, s[TargetBuffers(s)][activeTarget], region)
         IN IF r.err # "" THEN Err(s, "texture capture failed: " \o r.err)
            ELSE r

\* rl.DrawTexturePro of texture t at (x, y), full size, tinted white: a
\* transparent pixel of the texture leaves the pixel of the target as it is.
DrawTexturePro(rt, t, x, y) ==
    [rt EXCEPT !.px =
        [p \in Pts |->
            LET i == (p[2] - y) * t.width + (p[1] - x) + 1
            IN IF /\ x <= p[1] /\ p[1] < x + t.width
                  /\ y <= p[2] /\ p[2] < y + t.height
                  /\ i \in DOMAIN t.data
                  /\ t.data[i] # Transparent
               THEN t.data[i]
               ELSE @[p]]]

\* handleTexCommand of the buffer system, which returns (int, error).
handleTexCommandSlot(s, cmd) ==
    LET bad(n) == n < 0 \/ n >= NumTextures \/ ~InUse(s, n)
    IN CASE cmd.Mode = "add" ->
              IF Len(cmd.Params) < 2 THEN Err(s, "invalid texture parameters")
              ELSE IF cmd.Str = "" THEN Err(s, "no pixel data provided")
              ELSE CreateTextureFromPixelData(s, cmd.Str, cmd.Params[1], cmd.Params[2])
         [] cmd.Mode = "set" ->
              IF Len(cmd.Params) < 3 THEN Err(s, "invalid texture parameters")
              ELSE IF cmd.Str = "" THEN Err(s, "no pixel data provided")
              ELSE IF bad(cmd.Params[1]) THEN Err(s, "invalid texture number")
              ELSE LET r == CreateTextureFromPixelData(s, cmd.Str, cmd.Params[2],
                                                       cmd.Params[3])
                   IN IF r.err # "" THEN Err(ClearTexture(s, cmd.Params[1]), r.err)
                      ELSE r
         [] cmd.Mode = "del" ->
              IF Len(cmd.Params) < 1 THEN Err(s, "texture number required")
              ELSE IF bad(cmd.Params[1]) THEN Err(s, "invalid texture number")
              ELSE Slot(ClearTexture(s, cmd.Params[1]), cmd.Params[1])
         [] cmd.Mode = "paint" ->
              IF Len(cmd.Params) < 3 THEN Err(s, "invalid texture paint parameters")
              ELSE IF bad(cmd.Params[3]) THEN Err(s, "invalid texture number")
              ELSE Slot([s EXCEPT ![TargetBuffers(s)][activeTarget] =
                            DrawTexturePro(@, s.textures[cmd.Params[3]],
                                           cmd.Params[1], cmd.Params[2])],
                        cmd.Params[3])
         [] OTHER -> Err(s, "unknown texture command mode")


\* ---- The command path with the capture mode of rect.

\* handleDrawingCommandConn with parseCommand of commands.go, which knows the
\* mode T.
ScanCapture(c, fields) ==
    /\ Running
    /\ reader[c].pc = "scan"
    /\ ~peerClosed[c]
    /\ nLines < MaxLines
    /\ nLines' = nLines + 1
    /\ LET r == commands_parseCommand(fields)
       IN /\ reader' = [reader EXCEPT ![c] =
                        IF r.err # ""
                        THEN [pc |-> "reply", cmd |-> ZeroCmd, err |-> r.err]
                        ELSE [pc |-> "send", cmd |-> [r.dc EXCEPT !.Conn = c],
                              err |-> ""]]
          /\ sent' = IF r.err # "" THEN sent
                     ELSE [sent EXCEPT ![c] = Append(@, [r.dc EXCEPT !.Conn = c])]
          /\ g' = IF r = Crash THEN [g EXCEPT !.panicked = TRUE] ELSE g
    /\ UNCHANGED <<commandChan, peerClosed, sockBuf, execPc, execPending,
                   enqLog, execLog, ev>>

IsCapture(cmd) == cmd.Cmd = "rect" /\ cmd.Mode = "T"

\* One iteration of the loop of processCommands where rect has the mode T: a
\* rect in mode T is a capture, nothing is drawn, and the slot number or the
\* error goes back to the connection, like the slot number of tex add; a tex
\* sub-command goes to the handleTexCommand that returns (int, error); every
\* other command is executed as before.  (The number in the error line is not
\* the source's.)
dispatchCommand(s, cmd) ==
    IF cmd.Mode = "query" THEN execCommand(s, cmd)
    ELSE IF IsCapture(cmd)
    THEN LET r == handleTextureCapture(s, cmd)
         IN IF r.err # "" THEN Reply(r.s, "ERROR 0030 : " \o r.err)
            ELSE Reply(r.s, ToString(r.slot))
    ELSE IF cmd.Cmd = "tex"
    THEN LET r == handleTexCommandSlot(s, cmd)
         IN IF r.err # "" THEN Reply(r.s, "ERROR 0020 : " \o r.err)
            ELSE IF cmd.Mode \in {"add", "set"} THEN Reply(r.s, ToString(r.slot))
            ELSE Done(r.s)
    ELSE execCommand(s, cmd)

\* processCommands with that dispatch: one iteration that receives a command
\* and executes it.
ProcessCommandCapture ==
    /\ Running
    /\ execPc = "drain"
    /\ commandChan # <<>>
    /\ LET got == ChanRecv(commandChan)
           r == dispatchCommand(g, got.cmd)
           c == got.cmd.Conn
       IN /\ commandChan' = got.rest
          /\ execLog' = Append(execLog, Executed(got.cmd))
          /\ g' = r.s
          /\ IF r.out = <<>>
             THEN UNCHANGED <<sockBuf, execPc, execPending>>
             ELSE IF WriteBlocks(c)
             THEN /\ execPc' = "write"
                  /\ execPending' = [conn |-> c, line |-> r.out[1]]
                  /\ UNCHANGED sockBuf
             ELSE /\ sockBuf' = Written(c, r.out[1])
                  /\ UNCHANGED <<execPc, execPending>>
    /\ UNCHANGED <<reader, peerClosed, nLines, sent, enqLog, ev>>

\* Two captures, a plot and a clear of the surface, a paint and a deletion of
\* slot 0.
CaptureLines ==
    {<<"rect", "0", "0", "2", "2", "T">>, <<"rect", "1", "0", "1", "1", "t">>,
     <<"plot", "1", "0", "3">>, <<"cls">>, <<"tex", "paint", "0", "0", "0">>,
     <<"tex", "del", "0">>, <<"bogus">>}

\* Captures of regions inside, at the edge of and outside the surface.
RegionLines ==
    {<<"rect", "0", "0", "2", "2", "T">>, <<"rect", "255", "191", "1", "1", "T">>,
     <<"rect", "255", "0", "2", "1", "T">>, <<"rect", "0", "191", "1", "2", "T">>,
     <<"rect", "0", "0", "0", "1", "T">>, <<"rect", "0", "0", "1", "0", "T">>,
     <<"rect", "-1", "0", "1", "1", "T">>, <<"rect", "0", "-1", "1", "1", "T">>,
     <<"tex", "del", "0">>, <<"bogus">>}

\* The globals after the commands of lines were executed from startup.
After(lines) == Replay(InitGlobals, [i \in 1..Len(lines) |-> Parsed(lines[i])])

\* The render loop starts on a surface that has been drawn on, in flip mode
\* or in layer mode, with every texture slot free or every slot in use.
CaptureStart ==
    {[s EXCEPT !.textures = tx] :
        s \in {After(<<<<"plot", "1", "0", "2">>, <<"plot", "0", "1", "4">>>>),
               After(<<<<"paint", "layer">>, <<"plot", "1", "0", "2">>>>)},
        tx \in {FilledTo(0), FilledTo(NumTextures)}}

InitCapture ==
    /\ g \in CaptureStart
    /\ commandChan = <<>>
    /\ reader = [c \in Conns |-> [pc |-> "scan", cmd |-> ZeroCmd, err |-> ""]]
    /\ peerClosed = [c \in Conns |-> FALSE]
    /\ sockBuf = [c \in Conns |-> <<>>]
    /\ execPc = "drain"
    /\ execPending = NoWrite
    /\ nLines = 0
    /\ sent = [c \in Conns |-> <<>>]
    /\ enqLog = <<>>
    /\ execLog = <<>>
    /\ ev = NoEvents

NextCapture(L) ==
    \/ \E fields \in L : ScanCapture(1, fields)
    \/ ReplyError(1)
    \/ Send(1)
    \/ ClientClose(1)
    \/ ClientRead(1)
    \/ ProcessCommandCapture
    \/ FinishWrite
    \/ DrainReturn
    \/ Render

SpecCapture == InitCapture /\ [][NextCapture(CaptureLines)]_vars

SpecRegion == InitCapture /\ [][NextCapture(RegionLines)]_vars


\* ---- C24, C25: capturing a region of a surface.

\* The four arrays of surfaces.
Surfaces(s) ==
    <<s.flipBuffers, s.layerBuffers, s.offscreenFlipBuffers, s.offscreenLayerBuffers>>

\* The surface a capture reads and a tex paint draws on.
SourceSurface(s) == s[TargetBuffers(s)][activeTarget]

\* The render loop receives the command at the head of the channel and it is
\* a capture.
ExecutesCapture == ExecutesHead /\ IsCapture(Head(commandChan))

BadRegion(s, P) ==
    \/ P[1] < 0 \/ P[2] < 0 \/ P[3] <= 0 \/ P[4] <= 0
    \/ P[1] + P[3] > BaseWidth * s.graphicsMult
    \/ P[2] + P[4] > BaseHeight * s.graphicsMult

Subs == 1..NumSubs

\* eventConns without its element at index i (counted from 0):
\* append(eventConns[:i], eventConns[i+1:]...)
RemoveAt(q, i) == SubSeq(q, 1, i) \o SubSeq(q, i + 2, Len(q))

\* startEventServer: ln.Accept() returns a new connection.
Accept(e) ==
    /\ Running
    /\ ev.accepting = NoConn
    /\ e \notin ev.accepted
    /\ ev' = [ev EXCEPT !.accepting = e, !.accepted = @ \cup {e}]
    /\ UNCHANGED <<g, commandChan, reader, peerClosed, sockBuf, execPc,
                   execPending, nLines, sent, enqLog, execLog>>

\* startEventServer: eventConnsMu.Lock(), the append, eventConnsMu.Unlock();
\* the listener waits while sendEvent holds the mutex.
Subscribe ==
    /\ Running
    /\ ev.accepting # NoConn
    /\ ~ev.locked
    /\ ev' = [ev EXCEPT !.eventConns = Append(@, ev.accepting),
                        !.accepting = NoConn]
    /\ UNCHANGED <<g, commandChan, reader, peerClosed, sockBuf, execPc,
                   execPending, nLines, sent, enqLog, execLog>>

\* A subscriber closes its end of its connection.
SubscriberClose(e) ==
    /\ Running
    /\ e \in ev.accepted \ ev.gone
    /\ ev' = [ev EXCEPT !.gone = @ \cup {e}]
    /\ UNCHANGED <<g, commandChan, reader, peerClosed, sockBuf, execPc,
                   execPending, nLines, sent, enqLog, execLog>>

\* main: the left mouse button was pressed in this tick; sendEvent takes the
\* mutex.
SendEventLock ==
    /\ Running
    /\ execPc = "render"
    /\ ~ev.locked
    /\ execPc' = "event"
    /\ ev' = [ev EXCEPT !.locked = TRUE, !.i = 0, !.before = ev.eventConns,
                        !.tried = <<>>, !.failed = {}]
    /\ UNCHANGED <<g, commandChan, reader, peerClosed, sockBuf, execPending,
                   nLines, sent, enqLog, execLog>>

\* The write of sendEvent to a connection returns an error: only a connection
\* whose subscriber has closed it can do that, and its first write after the
\* close may still succeed.
WriteOutcomes(e) == IF e \in ev.gone THEN {TRUE, FALSE} ELSE {TRUE}

\* An iteration of sendEvent that goes on to the next index after a removal
\* as well.
SendEventWriteSkips ==
    /\ Running
    /\ execPc = "event"
    /\ ev.i < Len(ev.eventConns)
    /\ LET e == ev.eventConns[ev.i + 1]
       IN \E ok \in WriteOutcomes(e) :
             ev' = IF ok
                   THEN [ev EXCEPT !.tried = Append(@, e), !.i = @ + 1]
                   ELSE [ev EXCEPT !.tried = Append(@, e),
                                   !.failed = @ \cup {e},
                                   !.closed = @ \cup {e},
                                   !.eventConns = RemoveAt(@, ev.i),
                                   !.i = @ + 1]
    /\ UNCHANGED <<g, commandChan, reader, peerClosed, sockBuf, execPc,
                   execPending, nLines, sent, enqLog, execLog>>

\* sendEvent: one iteration of the loop, fmt.Fprintln(eventConns[i], event);
\* on an error the connection is closed and removed, and i-- followed by the
\* loop's i++ leaves i where it is.
SendEventWrite ==
    /\ Running
    /\ execPc = "event"
    /\ ev.i < Len(ev.eventConns)
    /\ LET e == ev.eventConns[ev.i + 1]
       IN \E ok \in WriteOutcomes(e) :
             ev' = IF ok
                   THEN [ev EXCEPT !.tried = Append(@, e), !.i = @ + 1]
                   ELSE [ev EXCEPT !.tried = Append(@, e),
                                   !.failed = @ \cup {e},
                                   !.closed = @ \cup {e},
                                   !.eventConns = RemoveAt(@, ev.i)]
    /\ UNCHANGED <<g, commandChan, reader, peerClosed, sockBuf, execPc,
                   execPending, nLines, sent, enqLog, execLog>>

\* sendEvent: the loop ends, the deferred eventConnsMu.Unlock() runs; main
\* goes on to rl.EndDrawing() and the next tick.
SendEventUnlock ==
    /\ Running
    /\ execPc = "event"
    /\ ev.i >= Len(ev.eventConns)
    /\ execPc' = "drain"
    /\ ev' = [ev EXCEPT !.locked = FALSE]
    /\ UNCHANGED <<g, commandChan, reader, peerClosed, sockBuf, execPending,
                   nLines, sent, enqLog, execLog>>

\* The steps of the program with the event side: the subscribers and the
\* render loop with its mouse events, no drawing client.
NextEvents ==
    \/ DrainReturn
    \/ Render
    \/ \E e \in Subs : Accept(e)
    \/ Subscribe
    \/ \E e \in Subs : SubscriberClose(e)
    \/ SendEventLock
    \/ SendEventWrite
    \/ SendEventUnlock

SpecEvents == Init /\ [][NextEvents]_vars

\* ---- C27: publishing an event.

\* The elements of q that are not in S, in the order of q.
Without(q, S) == SelectSeq(q, LAMBDA e : e \notin S)

\* C27: when sendEvent returns it has written once to every connection that
\* was subscribed when it took the mutex, in the order of the list, and the
\* list is that list without the connections whose write failed, which have
\* been closed, the others in their order; a connection accepted meanwhile
\* is appended only after sendEvent has returned.
C27_SendEventVisitsEachOnce ==
    [][SendEventUnlock =>
          /\ ev.tried = ev.before
          /\ ev'.eventConns = Without(ev.before, ev.failed)
          /\ ev.failed \subseteq ev.closed]_vars

\* sendEvent returns after the writes to two adjacent subscribers failed, the
\* first two of three, while a further connection, accepted meanwhile, waits
\* for the mutex: the list is the third subscriber alone.
C27_Witness ==
    /\ execPc = "event"
    /\ ev.i >= Len(ev.eventConns)
    /\ Len(ev.before) = 3
    /\ ev.failed = {ev.before[1], ev.before[2]}
    /\ ev.eventConns = <<ev.before[3]>>
    /\ ev.accepting # NoConn


\* ---- C31: lines with the wrong number of arguments.

\* Lines with too few or too many arguments for their verb, two lines with
\* the right number, a query and a command nobody knows.
ArityLines ==
    {<<"plot", "1">>, <<"line", "1", "1", "0">>, <<"ink">>, <<"colour", "1", "2">>,
     <<"cls", "5">>, <<"plot", "0", "0">>, <<"ink", "3">>, <<"ink", "?">>,
     <<"bogus">>}

SpecArity == Init /\ [][NextSolo(ArityLines)]_vars

\* The numbers of arguments the protocol gives each verb.
ArgCounts(verb) ==
    CASE verb = "plot" -> {2, 3}
      [] verb = "line" -> {4, 5}
      [] verb = "lineto" -> {2, 3}
      [] verb \in {"ink", "paper", "bright"} -> {1}
      [] verb = "colour" -> {3}
      [] verb = "cls" -> {0}
      [] OTHER -> 0..6

\* The line is not a query and has a number of arguments its verb does not
\* take.
WrongArity(fields) ==
    /\ fields[Len(fields)] # "?"
    /\ Len(fields) - 1 \notin ArgCounts(ToLower(fields[1]))

\* C31 as stated: a line with the wrong number of arguments for its verb is
\* a parse error: its reader replies with the error and sends no command.
C31_WrongArityIsParseError ==
    [][\A c \in Conns : \A fields \in ArityLines :
          (WrongArity(fields) /\ Scan(c, fields)) => ParseFails(c)]_vars


\* ---- C32: a command name with the question mark attached.

SuffixedLines == {<<"colour?">>, <<"ink?">>, <<"paint?">>}

SuffixLines ==
    SuffixedLines \cup
    {<<"colour", "?">>, <<"ink", "?">>, <<"paint", "?">>, <<"ink", "3">>,
     <<"paint", "layer">>}

SpecSuffix == Init /\ [][NextSolo(SuffixLines)]_vars

\* The token without its last character.
TrimLast(tok) == SubSeq(tok, 1, Len(tok) - 1)

\* C32 as stated: a line that is one command name with ? attached parses to
\* the query of that name, as the same name followed by a separate ? does.
C32_SuffixedNameIsQuery ==
    [][\A c \in Conns : \A fields \in SuffixedLines :
          Scan(c, fields) =>
              ParsesTo(c, parseCommand(<<TrimLast(fields[1]), "?">>).dc)]_vars


\* ---- C33: what a query changes.

\* The names processQuery knows, the name of a command that is no query and
\* a name nobody knows.
QueryNames ==
    {"colour", "graphics", "zoom", "ink", "paper", "bright", "host", "flip",
     "layer", "paint", "paint_target", "eraser", "cls", "bogus"}

\* The lines of the client that asks.
AskLines == {<<n, "?">> : n \in QueryNames} \cup {<<"flip", "1", "?">>}

\* The lines of the client that changes what the queries report.
TellLines ==
    {<<"ink", "3">>, <<"paint", "layer">>, <<"plot", "0", "0">>, <<"bogus">>}

\* Connection 1 asks and connection 2 draws.
NextAsk ==
    \/ \E fields \in AskLines : Scan(1, fields)
    \/ \E fields \in TellLines : Scan(2, fields)
    \/ \E c \in Conns : ReplyError(c)
    \/ \E c \in Conns : Send(c)
    \/ \E c \in Conns : ClientClose(c)
    \/ \E c \in Conns : ClientRead(c)
    \/ ProcessCommand
    \/ FinishWrite
    \/ DrainReturn
    \/ Render

SpecAsk == Init /\ [][NextAsk]_vars

IsQuery(cmd) == cmd.Mode = "query"

\* C33: executing a query, of a known name or not, changes no global and
\* writes one line, the answer, to the connection that sent it (nothing when
\* that connection is closed); the readers, the other connections and the
\* rest of the channel are as they were.
C33_QueryChangesNothing ==
    [][(ExecutesHead /\ IsQuery(Head(commandChan))) =>
            LET cmd == Head(commandChan)
            IN /\ g' = g
               /\ Answers(cmd.Conn, processQuery(g, cmd.Cmd))
               /\ \A d \in Conns \ {cmd.Conn} : sockBuf'[d] = sockBuf[d]
               /\ reader' = reader
               /\ peerClosed' = peerClosed
               /\ enqLog' = enqLog]_vars

\* Connection 2 has set the ink to 3, switched to layer mode and plotted;
\* connection 1 has then asked for the ink and holds the answer, and the
\* globals are what connection 2 made them.
C33_Witness ==
    /\ Len(execLog) = 3
    /\ ~IsQuery(execLog[1].cmd) /\ ~IsQuery(execLog[2].cmd)
    /\ execLog[3].cmd = [Parsed(<<"ink", "?">>) EXCEPT !.Conn = 1]
    /\ g.defaultInk = 3
    /\ g.currentDrawingMode = "layer"
    /\ sockBuf[1] = <<"3">>
    /\ sockBuf[2] = <<>>


\* ---- C34, C38: the target surface.

\* Lines that select the mode, the target and the active buffers, draw and
\* clear, a paper outside the palette, a query and a command nobody knows.
TargetLines ==
    {<<"cls">>, <<"plot", "0", "0", "1">>, <<"paint", "layer">>,
     <<"paint_target", "offscreen">>, <<"flip", "1">>, <<"layer", "2">>,
     <<"graphics", "2">>, <<"paper", "15">>, <<"ink", "?">>, <<"bogus">>}

SpecTarget == Init /\ [][NextSolo(TargetLines)]_vars

IsCls(cmd) == cmd.Mode # "query" /\ cmd.Cmd = "cls"

\* The colour cls clears with: the effective paper in flip mode, full
\* transparency in layer mode.
ClearColour(s) ==
    IF s.currentDrawingMode = "flip" THEN effectivePaperColor(s) ELSE Transparent

\* C34 as stated: cls leaves every pixel of the surface selected by the mode,
\* the target and the active index at the effective paper colour (flip) or
\* transparent (layer), and changes nothing else: not the other 31 surfaces,
\* the textures, the colour state or the pen.
C34_ClsResetsOneSurface ==
    [][(ExecutesHead /\ IsCls(Head(commandChan))) =>
            /\ ~g'.panicked
            /\ ClearColour(g) \in (0..(PaletteLen - 1)) \cup {Transparent}
            /\ g' = WithTarget(g, Fill(getTargetBuffer(g), ClearColour(g)))
            /\ WritesNothing]_vars


\* ---- C35: the eraser.

\* Lines that switch the mode and the eraser, draws with a colour outside the
\* palette and with the ink, an ink, a query and a command nobody knows.
EraserLines ==
    {<<"paint", "layer">>, <<"paint", "flip">>, <<"eraser">>,
     <<"plot", "0", "0", "99">>, <<"line", "0", "1", "1", "1">>, <<"ink", "3">>,
     <<"eraser", "?">>, <<"bogus">>}

\* The render loop starts at startup or on layer 0 with all sample pixels
\* painted.
EraserStart ==
    {InitGlobals,
     After(<<<<"paint", "layer">>, <<"line", "0", "0", "1", "0", "3">>,
             <<"line", "0", "1", "1", "1", "4">>>>)}

InitEraser ==
    /\ g \in EraserStart
    /\ commandChan = <<>>
    /\ reader = [c \in Conns |-> [pc |-> "scan", cmd |-> ZeroCmd, err |-> ""]]
    /\ peerClosed = [c \in Conns |-> FALSE]
    /\ sockBuf = [c \in Conns |-> <<>>]
    /\ execPc = "drain"
    /\ execPending = NoWrite
    /\ nLines = 0
    /\ sent = [c \in Conns |-> <<>>]
    /\ enqLog = <<>>
    /\ execLog = <<>>
    /\ ev = NoEvents

SpecEraser == InitEraser /\ [][NextOn(EraserLines)]_vars

\* The number of parameters a draw handler looks for before it draws.
MinParams(cmd) ==
    CASE cmd.Cmd \in {"plot", "lineto"} -> 2
      [] cmd.Cmd = "circle" -> 3
      [] cmd.Cmd \in {"line", "rect"} -> 4
      [] OTHER -> 6

\* A draw command that its handler draws.
IsDrawn(cmd) ==
    cmd.Mode # "query" /\ cmd.Cmd \in DrawCmds /\ Len(cmd.Params) >= MinParams(cmd)

\* The sample pixels of the target that the step changes.
Repainted == {p \in Pts : getTargetBuffer(g').px[p] # getTargetBuffer(g).px[p]}

\* C35: the eraser is on only in layer mode; and a draw command executed
\* while it is on goes to a layer buffer, makes the pixels it changes
\* transparent whatever its colour parameter is (a plot its own pixel),
\* looks no colour up in the palette and changes nothing but the target
\* buffer and the pen.
C35_EraserOnlyInLayerMode ==
    /\ [](g.eraserMode => g.currentDrawingMode = "layer")
    /\ [][(ExecutesHead /\ IsDrawn(Head(commandChan)) /\ g.eraserMode) =>
            LET cmd == Head(commandChan)
            IN /\ ~g'.panicked
               /\ TargetKind(g) \in {"layerBuffers", "offscreenLayerBuffers"}
               /\ \A p \in Repainted : getTargetBuffer(g').px[p] = Transparent
               /\ cmd.Cmd = "plot" /\ <<cmd.Params[1], cmd.Params[2]>> \in Pts =>
                     TargetPixel(g', cmd.Params[1], cmd.Params[2]) = Transparent
               /\ WithTarget(g', getTargetBuffer(g))
                     = [g EXCEPT !.currentX = g'.currentX,
                                 !.currentY = g'.currentY]]_vars

\* Layer 0 was painted, the eraser was switched on and plot 0 0 99 was
\* executed: the eraser is still on, pixel (0, 0) of the layer is transparent
\* and the pixel next to it keeps its colour.
C35_Witness ==
    /\ Len(execLog) = 2
    /\ execLog[1].cmd.Cmd = "eraser" /\ execLog[1].cmd.Mode # "query"
    /\ execLog[2].cmd.Cmd = "plot"
    /\ g.eraserMode /\ g.currentDrawingMode = "layer"
    /\ g.layerBuffers[0].px[<<0, 0>>] = Transparent
    /\ g.layerBuffers[0].px[<<1, 0>>] = 3
    /\ ~g.panicked


\* ---- C36: the pen.

\* Linetos with the ink and with a colour, other commands between them, an
\* ink outside the palette, a query and a command nobody knows.
PenLines ==
    {<<"lineto", "1", "0">>, <<"lineto", "1", "1", "2">>, <<"lineto", "0", "1", "_">>,
     <<"plot", "0", "0", "4">>, <<"graphics", "2">>, <<"ink", "15">>,
     <<"ink", "?">>, <<"bogus">>}

SpecPen == Init /\ [][NextOn(PenLines)]_vars

IsLineTo(cmd) == IsDrawn(cmd) /\ cmd.Cmd = "lineto"

Pen(s) == <<s.currentX, s.currentY>>

\* The palette index a draw command paints with: its colour parameter, or the
\* effective ink when that is omitted or -1.
ColourOf(s, cmd) ==
    IF Len(cmd.Params) >= ColourPos(cmd) /\ cmd.Params[ColourPos(cmd)] # -1
    THEN cmd.Params[ColourPos(cmd)]
    ELSE effectiveInkColor(s)

\* C36 as stated: lineto x y paints the segment from the pen to (x, y) on the
\* target and then leaves the pen at (x, y), so the linetos executed one
\* after the other, whatever connections sent them, draw a connected
\* polyline; every other command leaves the pen where it was.
C36_LineToMovesPen ==
    [][ExecutesHead =>
            LET cmd == Head(commandChan)
            IN IF IsLineTo(cmd)
               THEN /\ ~g'.panicked
                    /\ Pen(g') = <<cmd.Params[1], cmd.Params[2]>>
                    /\ \A p \in LinePts(g.currentX, g.currentY,
                                        cmd.Params[1], cmd.Params[2]) :
                          getTargetBuffer(g').px[p] = ColourOf(g, cmd)
               ELSE Pen(g') = Pen(g)]_vars


\* ---- C37: the drain of one tick.

\* The lines of clients that keep sending.
DrainLines == {<<"ink", "3">>, <<"plot", "0", "0">>}

\* handleDrawingCommandConn: scanner.Scan() returns a line, parseCommand
\* parses it.  The client sends as many lines as it likes, and no history
\* of them is kept.
ScanNext(c, fields) ==
    /\ Running
    /\ reader[c].pc = "scan"
    /\ ~peerClosed[c]
    /\ LET r == parseCommand(fields)
       IN reader' = [reader EXCEPT ![c] =
                        IF r.err # ""
                        THEN [pc |-> "reply", cmd |-> ZeroCmd, err |-> r.err]
                        ELSE [pc |-> "send", cmd |-> [r.dc EXCEPT !.Conn = c],
                              err |-> ""]]
    /\ UNCHANGED <<g, commandChan, peerClosed, sockBuf, execPc, execPending,
                   nLines, sent, enqLog, execLog, ev>>

\* handleDrawingCommandConn: commandChan <- cmd
SendNext(c) ==
    /\ Running
    /\ reader[c].pc = "send"
    /\ Len(commandChan) < QueueCap
    /\ commandChan' = ChanSend(commandChan, reader[c].cmd)
    /\ reader' = [reader EXCEPT ![c] = AtScan(c)]
    /\ UNCHANGED <<g, peerClosed, sockBuf, execPc, execPending, nLines, sent,
                   enqLog, execLog, ev>>

\* processCommands: one iteration that receives a command and executes it
\* (none of the lines of DrainLines makes its handler write).
ProcessNext ==
    /\ Running
    /\ execPc = "drain"
    /\ commandChan # <<>>
    /\ LET got == ChanRecv(commandChan)
           r == execCommand(g, got.cmd)
       IN /\ r.out = <<>>
          /\ commandChan' = got.rest
          /\ g' = r.s
    /\ UNCHANGED <<reader, peerClosed, sockBuf, execPc, execPending, nLines,
                   sent, enqLog, execLog, ev>>

\* One step of the main goroutine: an iteration of the loop of
\* processCommands, its return, or the rest of the tick.
RenderLoopStep == ProcessNext \/ DrainReturn \/ Render

NextDrain ==
    \/ \E c \in Conns : \E fields \in DrainLines : ScanNext(c, fields)
    \/ \E c \in Conns : SendNext(c)
    \/ ProcessNext
    \/ DrainReturn
    \/ Render

\* The scheduler lets every goroutine that can take a step take one: the
\* main goroutine and the reader of each connection.  Whether a client sends
\* another line is up to the client.
SpecDrain ==
    /\ Init
    /\ [][NextDrain]_vars
    /\ WF_vars(RenderLoopStep)
    /\ \A c \in Conns : WF_vars(SendNext(c))

\* C37 as stated: whenever the render loop is draining the channel it gets to
\* the compositing of the tick, whatever the clients send meanwhile.
C37_DrainReachesCompositing == (execPc = "drain") ~> (execPc = "render")


\* ---- C38: the offscreen indices.

\* C38: the active offscreen index of each kind is 0 in every state; a flip
\* or layer command changes no global but the onscreen index of its kind;
\* and a draw or cls executed with the target offscreen changes no surface
\* but offscreen surface 0 of the current kind.
C38_OffscreenIndexIsZero ==
    /\ [](g.activeOffscreenFlip = 0 /\ g.activeOffscreenLayer = 0)
    /\ [][(ExecutesHead /\ IsSelect(Head(commandChan))) =>
            [g' EXCEPT !.activeFlipBuffer = g.activeFlipBuffer,
                       !.activeLayerBuffer = g.activeLayerBuffer] = g]_vars
    /\ [][(/\ ExecutesHead
           /\ IsDrawOrClear(Head(commandChan))
           /\ g.currentTarget = "offscreen") =>
            /\ g'.flipBuffers = g.flipBuffers
            /\ g'.layerBuffers = g.layerBuffers
            /\ \A i \in Idx \ {0} :
                  /\ g'.offscreenFlipBuffers[i] = g.offscreenFlipBuffers[i]
                  /\ g'.offscreenLayerBuffers[i] = g.offscreenLayerBuffers[i]
            /\ g.currentDrawingMode = "flip" =>
                  g'.offscreenLayerBuffers = g.offscreenLayerBuffers
            /\ g.currentDrawingMode = "layer" =>
                  g'.offscreenFlipBuffers = g.offscreenFlipBuffers]_vars

\* The target was set offscreen, flip 1 was selected and plot 0 0 1 was
\* executed: the onscreen flip index is 1, the plot is on offscreen flip
\* buffer 0 and the onscreen buffers and offscreen buffer 1 are as at startup.
C38_Witness ==
    /\ Len(execLog) = 3
    /\ execLog[1].cmd.Cmd = "paint_target"
    /\ execLog[2].cmd.Cmd = "flip"
    /\ execLog[3].cmd.Cmd = "plot"
    /\ g.currentTarget = "offscreen"
    /\ g.activeFlipBuffer = 1
    /\ g.activeOffscreenFlip = 0
    /\ g.offscreenFlipBuffers[0].px[<<0, 0>>] = 1
    /\ g.offscreenFlipBuffers[1] = InitGlobals.offscreenFlipBuffers[1]
    /\ g.flipBuffers = InitGlobals.flipBuffers


\* ---- C39: a query behind a command of its own connection.

\* Commands that set the ink and the paper, the queries for them and a
\* command nobody knows.
AnswerLines ==
    {<<"ink", "3">>, <<"ink", "5">>, <<"paper", "2">>, <<"ink", "?">>,
     <<"paper", "?">>, <<"bogus">>}

SpecAnswer == Init /\ [][NextOn(AnswerLines)]_vars

\* The command assigns the global that the query of this name reports.
Sets(cmd, name) ==
    /\ cmd.Mode # "query"
    /\ name \in {"ink", "paper"}
    /\ \/ cmd.Cmd = name /\ Len(cmd.Params) = 1
       \/ cmd.Cmd = "colour" /\ Len(cmd.Params) = 3

\* C39: when the render loop executes a query for the ink or the paper, and
\* a command of the same connection that set it was sent to the channel
\* before the query, with no command of any connection that sets it sent in
\* between, the answer is the value that command set.
C39_QuerySeesOwnCommand ==
    [][(ExecutesHead /\ IsQuery(Head(commandChan))) =>
            LET q == Head(commandChan)
                j == Len(execLog) + 1
            IN /\ enqLog[j] = q
               /\ \A i \in 1..(j - 1) :
                    (/\ enqLog[i].Conn = q.Conn
                     /\ Sets(enqLog[i], q.Cmd)
                     /\ \A k \in (i + 1)..(j - 1) : ~Sets(enqLog[k], q.Cmd)) =>
                        Answers(q.Conn, ToString(enqLog[i].Params[1]))]_vars

\* Connection 1 sent ink 3 and then ink ?, connection 2 sent paper 2 in
\* between, and connection 1 holds the answer 3.
C39_Witness ==
    /\ Len(execLog) = 3
    /\ enqLog = <<[Parsed(<<"ink", "3">>) EXCEPT !.Conn = 1],
                  [Parsed(<<"paper", "2">>) EXCEPT !.Conn = 2],
                  [Parsed(<<"ink", "?">>) EXCEPT !.Conn = 1]>>
    /\ sockBuf[1] = <<"3">>
    /\ g.defaultPaper = 2

====
